---------------------------- MODULE Spec2Model ----------------------------
(***************************************************************************)
(* Process lifecycle and file-based control channel of the Solar2D MCP     *)
(* server (sensiblecoder/solar2d-mcp).                                     *)
(*                                                                         *)
(* The module holds several specifications over one set of variables:      *)
(*   Spec      the supervisor: run_solar2d_project and the simulator       *)
(*             processes it launches (src/tools/run_project.py handle)     *)
(*   SpecChan  a control file, its writer (the tools) and its polling      *)
(*             reader (readControlFile of the injected Lua modules)        *)
(*   SpecShot  the on-demand capture: get_simulator_screenshot 'latest'    *)
(*             against checkControl / captureOnDemand of the simulator     *)
(*   SpecLog   the log file written by the injected _mcp_logger module     *)
(*   SpecInj   the injection of the three require lines into main.lua      *)
(*   SpecInjIO the same with failing reads and writes of main.lua          *)
(* Each specification moves only its own group of variables.               *)
(***************************************************************************)
EXTENDS Integers, Sequences, FiniteSets, TLC

VARIABLES
    \* ---- supervisor (src/utils.py, src/tools/run_project.py handle) ----
    running_projects,   \* dict project_dir -> {pid, log_file, main_lua}
    procs,              \* every process Popen created, indexed by pid
    mainLua,            \* the directories that hold a main.lua
    simOk,              \* config: a simulator path is saved and exists
    pc,                 \* position of the run_solar2d_project call in flight
    h,                  \* locals of the run_solar2d_project call in flight
    result,             \* kind of the text the last finished call returned
    \* ---- control channel (screenshot.py, touch.py, readControlFile) ----
    ctl,                \* per channel: the control file (exists, content)
    wr,                 \* the write of a tool in flight (open ... close)
    rd,                 \* per channel: the reader's poll in flight
    written,            \* per channel: the commands whose write completed
    returned,           \* per channel: every content a poll returned
    superseded,         \* per channel: commands overwritten while pending
    lastPoll,           \* per channel: the last completed poll
    nwrites,            \* writes started so far
    \* ---- on-demand capture (screenshot.py 165-199, _mcp_screenshot) ----
    latest,             \* screenshot_latest.jpg (exists, mtime, image)
    clock,              \* the timestamp a file modified now receives
    cap,                \* the get_simulator_screenshot call in flight
    sim,                \* the simulator's screenshot module
    ncaps,              \* images captureOnDemand has taken
    nstarts,            \* simulator starts so far
    \* ---- log file (create_logging_wrapper, run_project.py 43-86) ----
    logf,               \* the content of corona_log_<name>.txt
    lg,                 \* where the simulator is in _mcp_logger.lua
    printed,            \* the print calls made since the last start
    runs,               \* simulator starts of the injected project
    truncs,             \* opens of the log file with "w" since that start
    \* ---- injection (inject_module_into_main_lua, handle 637-667) ----
    script,             \* main.lua, as content.split('\n')
    inj,                \* the launch in progress
    last,               \* the last call of inject_module_into_main_lua
    orig0,              \* main.lua before the first launch
    launched,           \* launches that reached Popen
    regd,               \* the last launch registered its instance
    \* ---- recorded frames (captureScreen, get_simulator_screenshot 200-257) ----
    frames,             \* screenshotCount
    shots,              \* the frame files in the screenshot directory
    recording,          \* isRecording()
    taken,              \* frames captured in this behaviour
    pick,               \* the last get_simulator_screenshot call with a selector
    \* ---- social draft (preview.py 288-365, publish.py 44-207) ----
    tmpfiles,           \* the draft file, by path
    apiKey,             \* a Late API key is configured
    pubs,               \* the publish_social_post calls
    npre,               \* successful previews so far
    prev,               \* the last preview_social_post call
    posted,             \* the drafts Late has accepted, in order
    \* ---- list_running_projects (list_projects.py 20-45) ----
    report,             \* the statuses the call in flight reports
    \* ---- touch simulation (touch.py 136-252, _mcp_touch writeDisplayInfo) ----
    info,               \* the display info file of the identity
    boot,               \* the simulator writing the display info
    tc,                 \* the simulate_tap / simulate_drag call in flight
    \* ---- a tool call taken alone (src/tools/*.py handlers) ----
    tool                \* the call, its arguments and what came of it

supVars == <<running_projects, procs, mainLua, simOk, pc, h, result>>

chanVars == <<ctl, wr, rd, written, returned, superseded, lastPoll, nwrites>>

shotVars == <<latest, clock, cap, sim, ncaps, nstarts>>

logVars == <<logf, lg, printed, runs, truncs>>

injVars == <<script, inj, last, orig0, launched, regd>>

frameVars == <<frames, shots, recording, taken, pick>>

draftVars == <<tmpfiles, apiKey, pubs, npre, prev, posted>>

listVars == <<report>>

touchVars == <<info, boot, tc>>

toolVars == <<tool>>

vars == <<supVars, chanVars, shotVars, logVars, injVars, frameVars, draftVars, listVars, touchVars, toolVars>>

\* What each specification leaves alone.
nonSup == <<chanVars, shotVars, logVars, injVars,
    frameVars,
    draftVars,
    listVars,
    touchVars,
    toolVars>>
nonChan == <<supVars, shotVars, logVars, injVars,
    frameVars,
    draftVars,
    listVars,
    touchVars,
    toolVars>>
nonShot == <<supVars, rd, written, returned, superseded, lastPoll, nwrites,
             logVars, injVars,
    frameVars,
    draftVars,
    listVars,
    touchVars,
    toolVars>>
nonLog == <<supVars, chanVars, shotVars, injVars,
    frameVars,
    draftVars,
    listVars,
    touchVars,
    toolVars>>
nonInj == <<supVars, chanVars, shotVars, logVars,
    frameVars,
    draftVars,
    listVars,
    touchVars,
    toolVars>>
nonFrame == <<supVars, chanVars, shotVars, logVars, injVars,
    draftVars,
    listVars,
    touchVars,
    toolVars>>
nonDraft == <<supVars, chanVars, shotVars, logVars, injVars, frameVars,
    listVars,
    touchVars,
    toolVars>>
nonList == <<supVars, chanVars, shotVars, logVars, injVars, frameVars, draftVars,
    touchVars,
    toolVars>>
nonTouch == <<supVars, rd, written, returned, superseded, lastPoll, nwrites,
              shotVars, logVars, injVars, frameVars, draftVars, listVars,
    toolVars>>
nonTool == <<supVars, wr, rd, written, returned, superseded, lastPoll, nwrites,
            shotVars, logVars, injVars, frameVars, draftVars, listVars,
            touchVars>>

(***************************************************************************)
(* Bounds of the model.                                                    *)
(***************************************************************************)
MaxLaunch == 3          \* processes the supervisor spawns in one behaviour

(***************************************************************************)
(* Paths.  A path is the sequence of its components below the root, as     *)
(* pathlib sees an absolute path: Path.name is the last component,         *)
(* Path.parent drops it.                                                   *)
(***************************************************************************)
MainName == "main.lua"

DirW == <<"w">>                 \* /w        a project (always has main.lua)
DirG == <<"w", "game">>         \* /w/game   a project nested in /w
DirX == <<"x">>                 \* /x        a plain directory
DirXG == <<"x", "game">>        \* /x/game   a project, same leaf name as /w/game
Nope == <<"w", "nope">>         \* /w/nope   a path that does not exist

AllDirs == {DirW, DirG, DirX, DirXG}
ToggleDirs == {DirG}            \* its main.lua may be removed and restored

Name(p) == IF p = <<>> THEN "" ELSE p[Len(p)]

Parent(p) == IF p = <<>> THEN <<>> ELSE SubSeq(p, 1, Len(p) - 1)

Join(p, leaf) == Append(p, leaf)

NoPath == <<"">>                \* the project_path argument is missing

\* The project_path arguments the model passes to the tools.
ProjectPaths ==
    {DirW, DirG, DirXG, Nope} \cup {Join(d, MainName) : d \in {DirW, DirG, DirXG}}

\* Directories no launch of the model uses: /m and /m/main.lua, a project
\* directory that carries the name of the entry script.
DirM == <<"m", "main.lua">>

OddDirs == {Parent(DirM), DirM}

IsDir(p) == p \in AllDirs \cup OddDirs

Exists(p, mains) ==
    \/ IsDir(p)
    \/ Name(p) = MainName /\ Parent(p) \in mains

\* utils.find_main_lua
find_main_lua(p, mains) ==
    IF Name(p) = MainName /\ Exists(p, mains)
    THEN p
    ELSE IF IsDir(p) /\ Exists(Join(p, MainName), mains)
         THEN Join(p, MainName)
         ELSE p

\* The keys run_solar2d_project can use: str(Path(main_lua_path).parent).
Keys == {Parent(find_main_lua(p, m)) : p \in ProjectPaths, m \in SUBSET AllDirs}

\* Path(project_dir).name, the identity that names every /tmp artifact.
project_name(dir) == Name(dir)

LogFile(dir) == <<"corona_log", project_name(dir)>>

(***************************************************************************)
(* Processes.                                                              *)
(*   alive   the process has not exited (Popen.poll() is None)             *)
(*   term    Popen.terminate() was called on it (SIGTERM)                  *)
(*   kill    Popen.kill() was called on it (SIGKILL)                       *)
(*   own     it exited on its own, not through the supervisor              *)
(*   grace   it exited within the wait that follows terminate()            *)
(***************************************************************************)
NewProc(dir) == [dir |-> dir, alive |-> TRUE, term |-> FALSE, kill |-> FALSE,
                 own |-> FALSE, grace |-> FALSE]

Registered(dir) == dir \in DOMAIN running_projects

\* wrote: the _mcp_*.lua files were written; injected: what the three
\* inject_module_into_main_lua calls reported.
NoCall == [path |-> <<>>, dir |-> <<>>, pid |-> 0, wrote |-> FALSE,
           injected |-> "none"]

SupInit ==
    /\ running_projects = <<>>
    /\ procs = <<>>
    /\ mainLua = {DirW, DirG, DirXG}
    /\ simOk \in BOOLEAN
    /\ pc = "idle"
    /\ h = NoCall
    /\ result = "none"

(***************************************************************************)
(* The environment of the supervisor.                                      *)
(***************************************************************************)
\* A simulator process exits on its own (the user closes the window).
ProcExit(i) ==
    /\ procs[i].alive
    /\ procs' = [procs EXCEPT ![i].alive = FALSE, ![i].own = TRUE]
    /\ UNCHANGED <<running_projects, mainLua, simOk, pc, h, result>>
    /\ UNCHANGED nonSup

\* The user removes or restores a project's entry script.
EnvToggleMain(d) ==
    /\ pc = "idle"
    /\ mainLua' = IF d \in mainLua THEN mainLua \ {d} ELSE mainLua \cup {d}
    /\ UNCHANGED <<running_projects, procs, simOk, pc, h, result>>
    /\ UNCHANGED nonSup

\* configure_solar2d saves a valid path, or the saved path stops existing.
EnvConfigure ==
    /\ pc = "idle"
    /\ simOk' = ~simOk
    /\ UNCHANGED <<running_projects, procs, mainLua, pc, h, result>>
    /\ UNCHANGED nonSup

(***************************************************************************)
(* run_solar2d_project (run_project.handle).  The handler never awaits, so *)
(* no other tool call runs between its steps; the simulator processes do.  *)
(***************************************************************************)
\* A plausible slip: kill() follows the wait whatever its outcome.
ForceKilledAlways(graceful) == TRUE

\* Lines 611-614: kill() is called in the handler of TimeoutExpired, the
\* exception of a wait(timeout=2) during which the process did not exit.
ForceKilled(graceful) == ~graceful

\* A plausible slip: no force-kill after the grace period.
TerminatedNoKill(pr, graceful) ==
    IF pr.alive
    THEN [pr EXCEPT !.term = TRUE, !.alive = ~graceful, !.grace = graceful]
    ELSE pr

\* Lines 609-614 on one process: terminate, wait up to 2 s, then kill.
\* graceful: the process exits within the grace period.  SIGKILL cannot be
\* caught: a process that was sent it counts as not alive.
Terminated(pr, graceful) ==
    IF pr.alive
    THEN [pr EXCEPT !.term = TRUE, !.alive = FALSE, !.grace = graceful,
                    !.kill = ForceKilled(graceful)]
    ELSE pr

\* A plausible slip: the entry is dropped and the old process left running.
EvictedUnsignalled(ps, dir, graceful) == ps

\* Lines 607-615: the processes after the eviction of dir's instance.
Evicted(ps, dir, graceful) ==
    IF Registered(dir)
    THEN [ps EXCEPT ![running_projects[dir].pid] = Terminated(@, graceful)]
    ELSE ps

\* A plausible slip: the existing simulator is closed before the
\* configuration is looked at.
RejectedAfterEviction(ps, p) ==
    Evicted(ps, Parent(find_main_lua(p, mainLua)), TRUE)

\* Lines 574-600 return before line 606 is reached: the processes are as
\* they were.
Rejected(ps, p) == ps

\* Lines 571-572 and 574-600: the early returns.  get_simulator_or_detect
\* asks for a confirmation when no path is saved or the saved path does not
\* exist; line 596 returns when the path is gone by then.
RunReject(p) ==
    /\ pc = "idle"
    /\ \/ /\ p = NoPath
          /\ result' = "no_path"
          /\ procs' = procs
       \/ /\ p # NoPath
          /\ ~simOk
          /\ result' = "not_configured"
          /\ procs' = Rejected(procs, p)
    /\ UNCHANGED <<running_projects, mainLua, simOk, pc, h>>
    /\ UNCHANGED nonSup

\* A plausible slip: the map is emptied.
WithoutAll(m, dir) == <<>>

\* Line 615: del running_projects[project_dir].
Without(m, dir) == [k \in DOMAIN m \ {dir} |-> m[k]]

\* Lines 602-615: find main.lua, close any existing simulator of the project.
RunEvict(p) ==
    /\ pc = "idle"
    /\ p # NoPath
    /\ simOk
    /\ Len(procs) < MaxLaunch
    /\ LET main_lua_path == find_main_lua(p, mainLua)
           project_dir == Parent(main_lua_path)
       IN /\ \E graceful \in BOOLEAN :
                procs' = Evicted(procs, project_dir, graceful)
          /\ running_projects' = Without(running_projects, project_dir)
          /\ h' = [NoCall EXCEPT !.path = main_lua_path, !.dir = project_dir]
    /\ pc' = "evicted"
    /\ result' = "none"
    /\ UNCHANGED <<mainLua, simOk>>
    /\ UNCHANGED nonSup

\* Lines 466-514 as the handler sees them: True ("injected"), False because
\* the reference is there ("present"), False because the file could not be
\* read or written ("failed"); a directory cannot be opened as a file.
InjectOutcomes(path) ==
    IF IsDir(path) THEN {"failed"} ELSE {"injected", "present", "failed"}

\* Lines 617-640: the existence check, the companion files, the injections.
RunPrepare ==
    /\ pc = "evicted"
    /\ \/ /\ ~Exists(h.path, mainLua)
          /\ result' = "not_found"
          /\ pc' = "idle"
          /\ h' = NoCall
       \/ /\ Exists(h.path, mainLua)
          /\ pc' = "prepared"
          /\ result' = result
          /\ \E r \in InjectOutcomes(h.path) :
                h' = [h EXCEPT !.wrote = TRUE, !.injected = r]
    /\ UNCHANGED <<running_projects, procs, mainLua, simOk>>
    /\ UNCHANGED nonSup

\* Lines 653-659 and 693-697: subprocess.Popen, or the exception it raises.
RunPopen ==
    /\ pc = "prepared"
    /\ \/ /\ procs' = Append(procs, NewProc(h.dir))
          /\ h' = [h EXCEPT !.pid = Len(procs) + 1]
          /\ pc' = "spawned"
          /\ result' = result
       \/ /\ procs' = procs
          /\ h' = NoCall
          /\ pc' = "idle"
          /\ result' = "spawn_error"
    /\ UNCHANGED <<running_projects, mainLua, simOk>>
    /\ UNCHANGED nonSup

\* A plausible slip: the entry is built before the spawn, when the call has
\* no process yet.
EntryUnspawned(call) == [pid |-> 0, log_file |-> LogFile(call.dir),
                         main_lua |-> call.path]

\* Lines 662-667: the entry of the process just spawned.
Entry(call) == [pid |-> call.pid, log_file |-> LogFile(call.dir),
                main_lua |-> call.path]

With(m, dir, e) == [k \in DOMAIN m \cup {dir} |-> IF k = dir THEN e ELSE m[k]]

\* Lines 661-691: track the running project, report the launch.
RunRegister ==
    /\ pc = "spawned"
    /\ running_projects' = With(running_projects, h.dir, Entry(h))
    /\ pc' = "idle"
    /\ h' = NoCall
    /\ result' = "launched"
    /\ UNCHANGED <<procs, mainLua, simOk>>
    /\ UNCHANGED nonSup

(***************************************************************************)
(* list_running_projects (list_projects.handle).  The handler never        *)
(* awaits; the report is its return value and is gone when it returns.     *)
(***************************************************************************)
nonSupList == <<chanVars, shotVars, logVars, injVars, frameVars, draftVars,
    touchVars,
    toolVars>>

\* status: what the call reports for each entry; alive: what poll() gave.
NoReport == [status |-> <<>>, alive |-> <<>>]

ListIdle == report = NoReport

\* A plausible slip: the status is not polled.
StatusRunning(pr) == "running"

\* Line 32: "running" if process.poll() is None else "stopped".
Status(pr) == IF pr.alive THEN "running" ELSE "stopped"

\* Lines 22-45: one status for each entry of the map.
List ==
    /\ pc = "idle"
    /\ report' =
           [status |-> [d \in DOMAIN running_projects |->
                          Status(procs[running_projects[d].pid])],
            alive |-> [d \in DOMAIN running_projects |->
                          procs[running_projects[d].pid].alive]]
    /\ pc' = "listed"
    /\ UNCHANGED <<running_projects, procs, mainLua, simOk, h, result>>
    /\ UNCHANGED nonSupList

ListReturn ==
    /\ pc = "listed"
    /\ report' = NoReport
    /\ pc' = "idle"
    /\ UNCHANGED <<running_projects, procs, mainLua, simOk, h, result>>
    /\ UNCHANGED nonSupList

(***************************************************************************)
(* The control channel.                                                    *)
(*                                                                         *)
(* A tool writes a command with  open(control_file, 'w'); f.write(text)    *)
(* and the injected Lua module polls with readControlFile: io.open and     *)
(* file:read("*all"), then os.remove.  The two sides are different         *)
(* processes, so their file operations interleave.  A file's content is    *)
(* the sequence of the commands written into it (one, or none after the    *)
(* truncation of open(..., 'w')).                                          *)
(***************************************************************************)
MaxWrites == 3          \* writes the tools start in one behaviour

Chans == {"screenshot", "touch"}

\* The texts the tools write: screenshot.py lines 125, 145, 172 and
\* touch.py lines 180, 246.
Payloads(c) ==
    IF c = "screenshot" THEN {"now", "0", "60"}
    ELSE {"tap,160,240", "drag,0,0,160,240,300"}

NoFile == [exists |-> FALSE, content |-> <<>>]

NoWrite == [chan |-> "none", cmd |-> [id |-> 0, text |-> ""],
            unlinked |-> FALSE, overlap |-> FALSE]

NoPoll == [pc |-> "idle", content |-> <<>>, clean |-> TRUE]

NoResult == [found |-> FALSE, ret |-> <<>>, clean |-> TRUE, want |-> <<>>,
             touched |-> FALSE]

ChanIdle ==
    /\ ctl = [c \in Chans |-> NoFile]
    /\ wr = NoWrite
    /\ rd = [c \in Chans |-> NoPoll]
    /\ written = [c \in Chans |-> <<>>]
    /\ returned = [c \in Chans |-> {}]
    /\ superseded = [c \in Chans |-> {}]
    /\ lastPoll = [c \in Chans |-> NoResult]
    /\ nwrites = 0

Cmds(content) == {content[k] : k \in 1..Len(content)}

\* A plausible slip: the file is opened in append mode.
OpenedAppend(f) == [exists |-> TRUE, content |-> f.content]

\* open(control_file, 'w'): the file exists and is empty.
Opened(f) == [exists |-> TRUE, content |-> <<>>]

\* A plausible slip: the reader deletes the file and returns nothing.
ReadNothing(f) == <<>>

\* file:read("*all"): the whole content of the file.
ReadAll(f) == f.content

\* The tool opens the control file for writing (with open(...) as f).
WOpen(c, text) ==
    /\ wr = NoWrite
    /\ nwrites < MaxWrites
    /\ nwrites' = nwrites + 1
    /\ ctl' = [ctl EXCEPT ![c] = Opened(@)]
    /\ wr' = [chan |-> c, cmd |-> [id |-> nwrites + 1, text |-> text],
              unlinked |-> FALSE, overlap |-> rd[c].pc = "read"]
    /\ superseded' =
          IF rd[c].pc = "idle"
          THEN [superseded EXCEPT ![c] = @ \cup Cmds(ctl[c].content)]
          ELSE superseded
    /\ rd' = IF rd[c].pc = "read" THEN [rd EXCEPT ![c].clean = FALSE] ELSE rd
    /\ lastPoll' = [lastPoll EXCEPT ![c].touched = TRUE]
    /\ UNCHANGED <<written, returned>>
    /\ UNCHANGED nonChan

\* f.write(text) and the close at the end of the with block: the text
\* reaches the file the descriptor refers to, which the reader may have
\* removed from the directory in between.
WClose ==
    /\ wr # NoWrite
    /\ ctl' = IF wr.unlinked
              THEN ctl
              ELSE [ctl EXCEPT ![wr.chan].content = Append(@, wr.cmd)]
    /\ written' = [written EXCEPT ![wr.chan] =
                      Append(@, [cmd |-> wr.cmd, overlap |-> wr.overlap])]
    /\ wr' = NoWrite
    /\ UNCHANGED <<rd, returned, superseded, lastPoll, nwrites>>
    /\ UNCHANGED nonChan

\* readControlFile, first half: io.open, file:read("*all"), file:close; or
\* nil when the file cannot be opened.  Nobody but the reader removes the
\* file, so what read returns is the content at the time of the read.
RRead(c) ==
    /\ rd[c].pc = "idle"
    /\ \/ /\ ctl[c].exists
          /\ rd' = [rd EXCEPT ![c] = [pc |-> "read",
                                      content |-> ReadAll(ctl[c]),
                                      clean |-> wr.chan # c]]
          /\ wr' = IF wr.chan = c THEN [wr EXCEPT !.overlap = TRUE] ELSE wr
          /\ UNCHANGED lastPoll
       \/ /\ ~ctl[c].exists
          /\ lastPoll' = [lastPoll EXCEPT ![c] = NoResult]
          /\ UNCHANGED <<rd, wr>>
    /\ UNCHANGED <<ctl, written, returned, superseded, nwrites>>
    /\ UNCHANGED nonChan

LastCmd(c) ==
    IF written[c] = <<>> THEN <<>> ELSE <<written[c][Len(written[c])].cmd>>

\* readControlFile, second half: os.remove(controlFile), return content.
RRemove(c) ==
    /\ rd[c].pc = "read"
    /\ ctl' = [ctl EXCEPT ![c] = NoFile]
    /\ wr' = IF wr.chan = c THEN [wr EXCEPT !.unlinked = TRUE] ELSE wr
    /\ returned' = [returned EXCEPT ![c] = @ \cup {rd[c].content}]
    /\ lastPoll' = [lastPoll EXCEPT ![c] =
                      [found |-> TRUE, ret |-> rd[c].content,
                       clean |-> rd[c].clean, want |-> LastCmd(c),
                       touched |-> wr.chan = c]]
    /\ rd' = [rd EXCEPT ![c] = NoPoll]
    /\ UNCHANGED <<written, superseded, nwrites>>
    /\ UNCHANGED nonChan

(***************************************************************************)
(* On-demand capture.                                                      *)
(*                                                                         *)
(* handle_get_screenshot with which = 'latest' writes "now" to the         *)
(* screenshot control file, records the modification time of               *)
(* screenshot_latest.jpg and polls it 20 times, 100 ms apart.  The         *)
(* simulator's checkControl consumes the control file and, on "now", runs  *)
(* captureOnDemand, whose copyFile opens the target with "wb" (the file is *)
(* there, empty) and then writes the image.  clearScreenshotDir empties    *)
(* the directory when the module is loaded.  Every step is one file system *)
(* call; os.path.exists and os.path.getmtime are two calls.                *)
(***************************************************************************)
MaxPolls == 20          \* for _ in range(20)
MaxCalls == 2           \* capture calls in one behaviour
MaxTime == 3            \* timestamps 1..MaxTime
MaxStarts == 2          \* simulator starts in one behaviour

Shot == "screenshot"

NoImage == [ver |-> 0, complete |-> FALSE]

NoLatest == [exists |-> FALSE, mtime |-> 0, img |-> NoImage]

\* pc: idle, opened, written, basestat, polling, pollstat, reading, done.
\* old: old_mtime.  kind: what the call returned.  The other fields are
\* history: pre / baseImg the file's mtime when the trigger was written and
\* its image when the baseline was taken, seen the mtime the successful poll
\* read, advanced / inTime / cleared what the simulator did meanwhile.
NoCapture == [pc |-> "idle", id |-> 0, old |-> 0, polls |-> 0,
              kind |-> "none", img |-> NoImage, seen |-> 0, pre |-> 0,
              baseImg |-> NoImage, advanced |-> FALSE, inTime |-> FALSE,
              cleared |-> FALSE]

SimOff == [pc |-> "off", content |-> <<>>]
SimIdle == [pc |-> "idle", content |-> <<>>]

ShotIdle ==
    /\ latest = NoLatest
    /\ clock = 1
    /\ cap = NoCapture
    /\ sim = SimOff
    /\ ncaps = 0
    /\ nstarts = 0

InPollWindow == cap.pc \in {"polling", "pollstat"}

\* The call has written its trigger and at least one poll is still to come.
BeforeLastPoll ==
    cap.pc \in {"written", "basestat", "polling", "pollstat"}
        /\ cap.polls < MaxPolls

\* History of the call in flight after the simulator wrote the file f.
Noted(c, f, consumed) ==
    [c EXCEPT !.advanced = @ \/ (InPollWindow /\ f.mtime > c.old),
              !.inTime = @ \/ (/\ BeforeLastPoll
                               /\ f.img.complete
                               /\ consumed = c.id
                               /\ f.mtime > c.pre)]

\* Lines 168-171: makedirs, open(control_file, 'w').
CapOpen ==
    /\ cap.pc \in {"idle", "done"}
    /\ cap.id < MaxCalls
    /\ wr = NoWrite
    /\ ctl' = [ctl EXCEPT ![Shot] = Opened(@)]
    /\ wr' = [NoWrite EXCEPT !.chan = Shot,
                             !.cmd = [id |-> cap.id + 1, text |-> "now"]]
    /\ cap' = [NoCapture EXCEPT !.pc = "opened", !.id = cap.id + 1]
    /\ UNCHANGED <<latest, clock, sim, ncaps, nstarts>>
    /\ UNCHANGED nonShot

\* Line 172: f.write("now") and the close of the with block.
CapWrite ==
    /\ cap.pc = "opened"
    /\ ctl' = IF wr.unlinked
              THEN ctl
              ELSE [ctl EXCEPT ![Shot].content = Append(@, wr.cmd)]
    /\ wr' = NoWrite
    /\ cap' = [cap EXCEPT !.pc = "written",
                          !.pre = IF latest.exists THEN latest.mtime ELSE 0]
    /\ UNCHANGED <<latest, clock, sim, ncaps, nstarts>>
    /\ UNCHANGED nonShot

\* Line 177, os.path.exists(latest_file): ... else 0.
CapBaseExists ==
    /\ cap.pc = "written"
    /\ cap' = IF latest.exists
              THEN [cap EXCEPT !.pc = "basestat"]
              ELSE [cap EXCEPT !.pc = "polling", !.old = 0]
    /\ UNCHANGED <<ctl, wr, latest, clock, sim, ncaps, nstarts>>
    /\ UNCHANGED nonShot

\* Line 177, os.path.getmtime(latest_file); FileNotFoundError when the file
\* went away after the exists check.
CapBaseStat ==
    /\ cap.pc = "basestat"
    /\ cap' = IF latest.exists
              THEN [cap EXCEPT !.pc = "polling", !.old = latest.mtime,
                               !.baseImg = latest.img]
              ELSE [cap EXCEPT !.pc = "done", !.kind = "raised"]
    /\ UNCHANGED <<ctl, wr, latest, clock, sim, ncaps, nstarts>>
    /\ UNCHANGED nonShot

\* The end of a loop iteration that found nothing new: the next iteration,
\* or lines 196-199 after the last.
Missed(c) ==
    IF c.polls = MaxPolls
    THEN [c EXCEPT !.pc = "done", !.kind = "timeout"]
    ELSE [c EXCEPT !.pc = "polling"]

\* Lines 180-182: the next iteration: sleep 100 ms, os.path.exists.
CapPollExists ==
    /\ cap.pc = "polling"
    /\ LET c == [cap EXCEPT !.polls = @ + 1]
       IN cap' = IF latest.exists THEN [c EXCEPT !.pc = "pollstat"]
                 ELSE Missed(c)
    /\ UNCHANGED <<ctl, wr, latest, clock, sim, ncaps, nstarts>>
    /\ UNCHANGED nonShot

\* A plausible slip: >= in place of >.
FreshOrSame(mtime, old_mtime) == mtime >= old_mtime

\* Line 184: new_mtime > old_mtime.
Fresh(mtime, old_mtime) == mtime > old_mtime

\* Lines 183-184: os.path.getmtime and the comparison.
CapPollStat ==
    /\ cap.pc = "pollstat"
    /\ cap' = IF ~latest.exists
              THEN [cap EXCEPT !.pc = "done", !.kind = "raised"]
              ELSE IF Fresh(latest.mtime, cap.old)
                   THEN [cap EXCEPT !.pc = "reading", !.seen = latest.mtime]
                   ELSE Missed(cap)
    /\ UNCHANGED <<ctl, wr, latest, clock, sim, ncaps, nstarts>>
    /\ UNCHANGED nonShot

\* Lines 186-194: read the file and return the image, or the error text.
CapRead ==
    /\ cap.pc = "reading"
    /\ cap' = IF latest.exists
              THEN [cap EXCEPT !.pc = "done", !.kind = "image",
                               !.img = latest.img]
              ELSE [cap EXCEPT !.pc = "done", !.kind = "error"]
    /\ UNCHANGED <<ctl, wr, latest, clock, sim, ncaps, nstarts>>
    /\ UNCHANGED nonShot

\* A plausible slip: the start of the module also removes the control file.
SimStartClearsControl ==
    /\ nstarts < MaxStarts
    /\ nstarts' = nstarts + 1
    /\ sim' = SimIdle
    /\ latest' = NoLatest
    /\ cap' = IF cap.pc \in {"idle", "done"} THEN cap
              ELSE [cap EXCEPT !.cleared = TRUE]
    /\ ctl' = [ctl EXCEPT ![Shot] = NoFile]
    /\ UNCHANGED <<wr, clock, ncaps>>
    /\ UNCHANGED nonShot

\* The simulator (re)starts and loads _mcp_screenshot: clearScreenshotDir.
SimStart ==
    /\ nstarts < MaxStarts
    /\ nstarts' = nstarts + 1
    /\ sim' = SimIdle
    /\ latest' = NoLatest
    /\ cap' = IF cap.pc \in {"idle", "done"} THEN cap
              ELSE [cap EXCEPT !.cleared = TRUE]
    /\ UNCHANGED <<ctl, wr, clock, ncaps>>
    /\ UNCHANGED nonShot

\* The simulator exits.
SimStop ==
    /\ sim.pc # "off"
    /\ sim' = SimOff
    /\ UNCHANGED <<ctl, wr, latest, clock, cap, ncaps, nstarts>>
    /\ UNCHANGED nonShot

\* checkControl, readControlFile: io.open succeeds, file:read("*all").
SimRead ==
    /\ sim.pc = "idle"
    /\ ctl[Shot].exists
    /\ sim' = [pc |-> "read", content |-> ReadAll(ctl[Shot])]
    /\ UNCHANGED <<ctl, wr, latest, clock, cap, ncaps, nstarts>>
    /\ UNCHANGED nonShot

IsNow(content) == Len(content) = 1 /\ content[1].text = "now"

\* readControlFile: os.remove; checkControl: "now" goes to captureOnDemand,
\* anything else in this specification is the empty text, which is ignored.
SimRemove ==
    /\ sim.pc = "read"
    /\ ctl' = [ctl EXCEPT ![Shot] = NoFile]
    /\ wr' = IF wr.chan = Shot THEN [wr EXCEPT !.unlinked = TRUE] ELSE wr
    /\ sim' = IF IsNow(sim.content) THEN [sim EXCEPT !.pc = "capture"]
              ELSE SimIdle
    /\ UNCHANGED <<latest, clock, cap, ncaps, nstarts>>
    /\ UNCHANGED nonShot

\* captureOnDemand: display.save, then copyFile opens the target with "wb".
SimSave ==
    /\ sim.pc = "capture"
    /\ ncaps' = ncaps + 1
    /\ latest' = [exists |-> TRUE, mtime |-> clock,
                  img |-> [ver |-> ncaps + 1, complete |-> FALSE]]
    /\ cap' = Noted(cap, latest', sim.content[1].id)
    /\ sim' = [sim EXCEPT !.pc = "copying"]
    /\ UNCHANGED <<ctl, wr, clock, nstarts>>
    /\ UNCHANGED nonShot

\* copyFile: outfile:write(content), outfile:close().
SimCopyDone ==
    /\ sim.pc = "copying"
    /\ latest' = [exists |-> TRUE, mtime |-> clock,
                  img |-> [latest.img EXCEPT !.complete = TRUE]]
    /\ cap' = Noted(cap, latest', sim.content[1].id)
    /\ sim' = SimIdle
    /\ UNCHANGED <<ctl, wr, clock, ncaps, nstarts>>
    /\ UNCHANGED nonShot

\* Time passes: the next file modification gets a later timestamp.
Tick ==
    /\ clock < MaxTime
    /\ clock' = clock + 1
    /\ UNCHANGED <<ctl, wr, latest, cap, sim, ncaps, nstarts>>
    /\ UNCHANGED nonShot

(***************************************************************************)
(* The log file.                                                           *)
(*                                                                         *)
(* _mcp_logger.lua, loaded by the require line injected into main.lua,     *)
(* opens the log file with "w" and writes the banner, replaces print by a  *)
(* function that joins its arguments with tabs and appends the message and *)
(* a newline, and prints one message of its own.  A text is a sequence of  *)
(* pieces; the pieces "\n" and "\t" are the newline and the tab.  One      *)
(* simulator at a time writes the file.                                    *)
(***************************************************************************)
MaxRuns == 2            \* simulator starts in one behaviour
MaxPrints == 3          \* print calls of the project after one start

NL == "\n"
TAB == "\t"

Banner == <<"=== Solar2D Simulator Started ===">>

InitMessage ==
    <<"[MCP] Logging initialized - output will be captured for Claude">>

\* What the project prints: the arguments of one call, each a text.
PrintArgs ==
    { <<<<"hello">>>>,
      <<<<"score">>, <<"10">>>>,
      <<<<"a", NL, "b">>>>,
      <<Banner>> }

\* A log left by an earlier session, or none.
OldLogs == { <<>>, Banner \o <<NL>> \o <<"old">> \o <<NL>> }

RECURSIVE Message(_)
\* Lines 60-65: the arguments joined by tabs.
Message(args) ==
    IF args = <<>> THEN <<>>
    ELSE IF Len(args) = 1 THEN args[1]
    ELSE args[1] \o <<TAB>> \o Message(Tail(args))

RECURSIVE Lines(_)
\* The lines of a text, as readlines() of read_solar2d_logs cuts them.
Lines(text) ==
    IF text = <<>> THEN <<>>
    ELSE IF \E i \in 1..Len(text) : text[i] = NL
         THEN LET i == CHOOSE k \in 1..Len(text) :
                           /\ text[k] = NL
                           /\ \A j \in 1..(k - 1) : text[j] # NL
              IN <<SubSeq(text, 1, i - 1)>>
                     \o Lines(SubSeq(text, i + 1, Len(text)))
         ELSE <<text>>

LogIdle ==
    /\ logf = <<>>
    /\ lg = "off"
    /\ printed = <<>>
    /\ runs = 0
    /\ truncs = 0

LogStart ==
    /\ logf \in OldLogs
    /\ lg = "off"
    /\ printed = <<>>
    /\ runs = 0
    /\ truncs = 0

\* A plausible slip: the print wrapper opens the file with "w".
Overwritten(content, text) == text

\* io.open(mcp_log_file, "a"), file:write(text), flush, close.
Appended(content, text) == content \o text

\* The simulator starts and reaches require("_mcp_logger").
LogLaunch ==
    /\ lg = "off"
    /\ runs < MaxRuns
    /\ runs' = runs + 1
    /\ truncs' = 0
    /\ lg' = "loading"
    /\ UNCHANGED <<logf, printed>>
    /\ UNCHANGED nonLog

\* Line 52: io.open(mcp_log_file, "w").
LogTruncate ==
    /\ lg = "loading"
    /\ logf' = <<>>
    /\ truncs' = truncs + 1
    /\ printed' = <<>>
    /\ lg' = "opened"
    /\ UNCHANGED runs
    /\ UNCHANGED nonLog

\* Lines 54-55: file:write(banner .. "\n"), file:close().
LogBanner ==
    /\ lg = "opened"
    /\ logf' = logf \o Banner \o <<NL>>
    /\ lg' = "started"
    /\ UNCHANGED <<printed, runs, truncs>>
    /\ UNCHANGED nonLog

\* Lines 59-77: one call of the replaced print.
Logged(args) ==
    /\ logf' = Appended(logf, Message(args) \o <<NL>>)
    /\ printed' = Append(printed, args)

\* Line 79: the module's own print, through the replaced print.
LogInitPrint ==
    /\ lg = "started"
    /\ Logged(<<InitMessage>>)
    /\ lg' = "running"
    /\ UNCHANGED <<runs, truncs>>
    /\ UNCHANGED nonLog

\* The project calls print.
LogPrint(args) ==
    /\ lg = "running"
    /\ Len(printed) < MaxPrints + 1
    /\ Logged(args)
    /\ UNCHANGED <<lg, runs, truncs>>
    /\ UNCHANGED nonLog

\* The simulator exits.
LogExit ==
    /\ lg # "off"
    /\ lg' = "off"
    /\ UNCHANGED <<logf, printed, runs, truncs>>
    /\ UNCHANGED nonLog

(***************************************************************************)
(* Injection of the require lines.                                         *)
(*                                                                         *)
(* A launch calls inject_module_into_main_lua for _mcp_logger,             *)
(* _mcp_screenshot and _mcp_touch, in this order, then starts the          *)
(* simulator.  main.lua is the list of its lines, content.split('\n'): a   *)
(* list of at least one line.  The lines are taken from a small set of     *)
(* Lua lines, and the substring tests of the code are tables over them.    *)
(***************************************************************************)
MaxLen == 3             \* lines of main.lua before the first launch
MaxRepeat == 2          \* launches in one behaviour
MaxFailures == 1        \* failing reads and writes in one behaviour

Modules == <<"_mcp_logger", "_mcp_screenshot", "_mcp_touch">>

LBlank == ""
LComment == "  -- entry point"
LCode == "local x = 1"
LRequire == "local composer = require(\"composer\")"
LCommentedRequire == "-- require(\"old\")"
LMobdebug == "require(\"mobdebug\").start()"
LLoggerDouble == "require(\"_mcp_logger\")"
LLoggerSingle == "require('_mcp_logger')"

UserLines == {LBlank, LComment, LCode, LRequire, LCommentedRequire,
              LMobdebug, LLoggerDouble, LLoggerSingle}

\* Line 504: f'{require_str}  -- Auto-injected by MCP server'.
InjectedLine(module_name) ==
    CASE module_name = "_mcp_logger" ->
             "require(\"_mcp_logger\")  -- Auto-injected by MCP server"
      [] module_name = "_mcp_screenshot" ->
             "require(\"_mcp_screenshot\")  -- Auto-injected by MCP server"
      [] module_name = "_mcp_touch" ->
             "require(\"_mcp_touch\")  -- Auto-injected by MCP server"

InjectedLines == {InjectedLine(Modules[k]) : k \in 1..3}

\* line.strip() is empty.
IsBlank(line) == line = LBlank

\* line.strip().startswith('--').
IsComment(line) == line \in {LComment, LCommentedRequire}

\* 'require' in line.
HasRequire(line) ==
    line \in {LRequire, LCommentedRequire, LMobdebug, LLoggerDouble,
              LLoggerSingle} \cup InjectedLines

\* 'mobdebug' in line.lower() and 'require' in line.
IsMobdebug(line) == line = LMobdebug

\* require_str or require_str_single is in the line.
Refers(line, module_name) ==
    \/ line = InjectedLine(module_name)
    \/ module_name = "_mcp_logger" /\ line \in {LLoggerDouble, LLoggerSingle}

\* A plausible slip: only the double-quoted form is looked for.
PresentDouble(lines, module_name) ==
    \E i \in 1..Len(lines) :
        \/ lines[i] = InjectedLine(module_name)
        \/ module_name = "_mcp_logger" /\ lines[i] = LLoggerDouble

\* Line 476: the reference is in the content.
Present(lines, module_name) ==
    \E i \in 1..Len(lines) : Refers(lines[i], module_name)

RefCount(lines, module_name) ==
    Cardinality({i \in 1..Len(lines) : Refers(lines[i], module_name)})

Min(S) == CHOOSE n \in S : \A k \in S : n <= k

\* Lines 485-493: the first line that is a mobdebug line or a require line
\* that is not a comment ends the loop; 0 if there is none.
FirstLoop(lines) ==
    LET hits == {i \in 1..Len(lines) :
                    \/ IsMobdebug(lines[i])
                    \/ HasRequire(lines[i]) /\ ~IsComment(lines[i])}
    IN IF hits = {} THEN 0
       ELSE IF IsMobdebug(lines[Min(hits)]) THEN Min(hits)
       ELSE Min(hits) - 1

\* Lines 496-501: the first line that is neither blank nor a comment.
SecondLoop(lines) ==
    LET hits == {i \in 1..Len(lines) :
                    ~IsBlank(lines[i]) /\ ~IsComment(lines[i])}
    IN IF hits = {} THEN 0 ELSE Min(hits) - 1

\* insert_index, counted from 0 as in the code.
InsertIndex(lines) ==
    IF FirstLoop(lines) = 0 THEN SecondLoop(lines) ELSE FirstLoop(lines)

\* lines.insert(insert_index, line).
Inserted(lines, insert_index, line) ==
    SubSeq(lines, 1, insert_index) \o <<line>>
        \o SubSeq(lines, insert_index + 1, Len(lines))

\* What a write that fails after open(main_lua_path, 'w') truncated the
\* file can leave: the empty file or the first lines of the new content.
Partial(lines) ==
    {<<LBlank>>} \cup {SubSeq(lines, 1, n) : n \in 1..(Len(lines) - 1)}

Failures == {"read", "open", "write"}

\* The whole function: the return value and the file it leaves.
Inject(lines, module_name, fail) ==
    IF fail = "read" \/ Present(lines, module_name)
    THEN {[ret |-> FALSE, text |-> lines, idx |-> 0]}
    ELSE LET idx == InsertIndex(lines)
             new == Inserted(lines, idx, InjectedLine(module_name))
         IN CASE fail = "none" ->
                     {[ret |-> TRUE, text |-> new, idx |-> idx]}
              [] fail = "open" ->
                     {[ret |-> FALSE, text |-> lines, idx |-> idx]}
              [] fail = "write" ->
                     {[ret |-> FALSE, text |-> p, idx |-> idx] :
                         p \in Partial(new)}

RECURSIVE TextsOf(_)
TextsOf(n) ==
    IF n = 0 THEN {<<>>}
    ELSE {Append(t, l) : t \in TextsOf(n - 1), l \in UserLines}

Texts == UNION {TextsOf(n) : n \in 1..MaxLen}

NoInject == [module |-> "none", before |-> <<>>, after |-> <<>>,
             ret |-> FALSE, idx |-> 0, fail |-> "none"]

NoLaunch == [pc |-> "idle", k |-> 0, origin |-> <<>>, rets |-> <<>>,
             fails |-> 0, spawned |-> FALSE]

InjIdle ==
    /\ script = <<LBlank>>
    /\ orig0 = script
    /\ inj = NoLaunch
    /\ last = NoInject
    /\ launched = 0
    /\ regd = FALSE

InjStart ==
    /\ script \in Texts
    /\ orig0 = script
    /\ inj = NoLaunch
    /\ last = NoInject
    /\ launched = 0
    /\ regd = FALSE

\* handle, lines 617-635: main.lua exists, the companions are written.
InjBegin ==
    /\ inj.pc = "idle"
    /\ launched < MaxRepeat
    /\ inj' = [NoLaunch EXCEPT !.pc = "inject", !.k = 1, !.origin = script,
                                !.fails = inj.fails]
    /\ regd' = FALSE
    /\ UNCHANGED <<script, last, orig0, launched>>
    /\ UNCHANGED nonInj

\* handle, lines 638-640: the next call of inject_module_into_main_lua.
InjStep(fail) ==
    /\ inj.pc = "inject"
    /\ fail # "none" => inj.fails < MaxFailures
    /\ fail \in {"open", "write"} => ~Present(script, Modules[inj.k])
    /\ \E out \in Inject(script, Modules[inj.k], fail) :
           /\ script' = out.text
           /\ last' = [module |-> Modules[inj.k], before |-> script,
                       after |-> out.text, ret |-> out.ret,
                       idx |-> out.idx, fail |-> fail]
           /\ inj' = [inj EXCEPT !.rets = Append(@, out.ret),
                                 !.fails = IF fail = "none" THEN @ ELSE @ + 1,
                                 !.k = IF @ = 3 THEN 0 ELSE @ + 1,
                                 !.pc = IF inj.k = 3 THEN "popen"
                                        ELSE "inject"]
    /\ UNCHANGED <<orig0, launched, regd>>
    /\ UNCHANGED nonInj

\* handle, lines 653-667 and 693-697: Popen and the registration, or the
\* error text when Popen raises.
InjPopen(ok) ==
    /\ inj.pc = "popen"
    /\ inj' = [inj EXCEPT !.pc = "idle", !.spawned = ok]
    /\ launched' = launched + 1
    /\ regd' = ok
    /\ UNCHANGED <<script, last, orig0>>
    /\ UNCHANGED nonInj

(***************************************************************************)
(* Recorded frames.                                                        *)
(*                                                                         *)
(* While recording, captureScreen numbers the frames 1, 2, ... and saves   *)
(* frame n as string.format("screenshot_%03d.jpg", n).  The selectors      *)
(* 'last' and N of get_simulator_screenshot work on the sorted directory   *)
(* listing.  A file name is the sequence of its characters between         *)
(* "screenshot_" and "jpg", which all the names share.  The copy of a      *)
(* captured frame into the directory succeeds.                             *)
(***************************************************************************)
MaxCaptures == 3        \* frames captured in one behaviour
PadWidth == 3           \* %03d and {num:03d}

\* The characters of the names, in the order of their codes.
Chars == <<"-", ".", "0", "1", "2", "3", "4", "5", "6", "7", "8", "9",
          "a", "e", "l", "s", "t">>

Ord(ch) == CHOOSE i \in 1..Len(Chars) : Chars[i] = ch

Digit(d) == Chars[d + 3]

RECURSIVE Digits(_)
Digits(n) ==
    IF n < 10 THEN <<Digit(n)>>
    ELSE Append(Digits(n \div 10), Digit(n % 10))

RECURSIVE Padded(_, _)
\* Zeros on the left up to the width; longer texts stay as they are.
Padded(text, width) ==
    IF Len(text) >= width THEN text ELSE Padded(<<"0">> \o text, width)

\* %03d of string.format and of the f-string: the sign counts in the width.
Format(num) ==
    IF num < 0 THEN <<"-">> \o Padded(Digits(-num), PadWidth - 1)
    ELSE Padded(Digits(num), PadWidth)

\* screenshot_<Format(num)>.jpg
FileName(num) == Format(num) \o <<".">>

RECURSIVE LexLess(_, _)
\* The order of Python strings.
LexLess(a, b) ==
    IF b = <<>> THEN FALSE
    ELSE IF a = <<>> THEN TRUE
    ELSE IF Head(a) # Head(b) THEN Ord(Head(a)) < Ord(Head(b))
    ELSE LexLess(Tail(a), Tail(b))

\* The names in a listing.
Names(listing) == {listing[i] : i \in 1..Len(listing)}

RECURSIVE LastBetween(_, _, _)
\* The greatest name of listing[lo..hi] in the order of Python strings.
LastBetween(listing, lo, hi) ==
    IF lo = hi THEN listing[lo]
    ELSE LET mid == (lo + hi) \div 2
             a == LastBetween(listing, lo, mid)
             b == LastBetween(listing, mid + 1, hi)
         IN IF LexLess(a, b) THEN b ELSE a

\* sorted(...)[-1]
SortedLast(listing) == LastBetween(listing, 1, Len(listing))

\* A plausible slip: the index of the last element.
AvailableLess(listing) == Len(listing) - 1

\* len(screenshots)
Available(listing) == Len(listing)

\* A run that has recorded no frame, or so many that the next ones leave
\* the field of PadWidth digits (recordings of up to 300 s at 10 frames
\* per second, the counter running on from one recording to the next).
StartFrames == {0, 10 ^ PadWidth - 2}

\* listing: what os.listdir gave the call.
NoPick == [which |-> "none", num |-> 0, kind |-> "none", file |-> <<>>,
           cited |-> 0, listing |-> <<>>]

FramesIdle ==
    /\ frames = 0
    /\ shots = <<>>
    /\ recording = FALSE
    /\ taken = 0
    /\ pick = NoPick

FramesStart ==
    /\ frames \in StartFrames
    /\ shots = [n \in 1..frames |-> FileName(n)]
    /\ recording \in BOOLEAN
    /\ taken = 0
    /\ pick = NoPick

\* checkControl, lines 215-226: a duration starts or stops the recording.
FrameRecord(on) ==
    /\ recording # on
    /\ recording' = on
    /\ UNCHANGED <<frames, shots, taken, pick>>
    /\ UNCHANGED nonFrame

\* captureScreen, lines 156-179.
FrameCapture ==
    /\ recording
    /\ taken < MaxCaptures
    /\ frames' = frames + 1
    /\ shots' = Append(shots, FileName(frames + 1))
    /\ taken' = taken + 1
    /\ UNCHANGED <<recording, pick>>
    /\ UNCHANGED nonFrame

\* The simulator restarts: clearScreenshotDir, screenshotCount = 0.
FrameRestart ==
    /\ frames > 0
    /\ frames' = 0
    /\ shots' = <<>>
    /\ recording' = FALSE
    /\ UNCHANGED <<taken, pick>>
    /\ UNCHANGED nonFrame

\* get_simulator_screenshot, which = 'last' (lines 207-220).
GetLast ==
    /\ pick' = IF shots = <<>>
               THEN [NoPick EXCEPT !.which = "last", !.kind = "no_recorded"]
               ELSE [NoPick EXCEPT !.which = "last", !.kind = "image",
                                   !.file = SortedLast(shots),
                                   !.listing = shots]
    /\ UNCHANGED <<frames, shots, recording, taken>>
    /\ UNCHANGED nonFrame

\* The numbers asked for: around both ends of what is there.
Selectors == {-1, 0, 1, 2, frames - 1, frames, frames + 1, frames + 2}

\* get_simulator_screenshot, which = a number (lines 236-252).
GetNumber(num) ==
    /\ pick' = IF FileName(num) \in Names(shots)
               THEN [NoPick EXCEPT !.which = "number", !.num = num,
                                   !.kind = "image", !.file = FileName(num),
                                   !.listing = shots]
               ELSE IF shots = <<>>
               THEN [NoPick EXCEPT !.which = "number", !.num = num,
                                   !.kind = "no_recorded"]
               ELSE [NoPick EXCEPT !.which = "number", !.num = num,
                                   !.kind = "not_found",
                                   !.cited = Available(shots),
                                   !.listing = shots]
    /\ UNCHANGED <<frames, shots, recording, taken>>
    /\ UNCHANGED nonFrame

(***************************************************************************)
(* The social draft.                                                       *)
(*                                                                         *)
(* preview_social_post validates its arguments and writes the draft file;  *)
(* it never awaits, so it runs in one step.  publish_social_post checks    *)
(* the API key, loads the draft and then awaits three requests to Late     *)
(* (accounts, media upload, post); at each await other tool calls run.     *)
(* After the post is accepted it removes the draft file.                   *)
(***************************************************************************)
MaxPreviews == 2        \* successful previews in one behaviour
MaxPublish == 2         \* publish calls in one behaviour

\* DRAFT_FILE of preview.py (line 83) and of publish.py (line 34), in the
\* temporary directory.
PreviewDraftFile == "solar2d_social_draft.json"
PublishDraftFile == "solar2d_social_draft.json"

DraftPaths == {PreviewDraftFile, PublishDraftFile}

NoDraft == [exists |-> FALSE, id |-> 0, content |-> "", media |-> FALSE]

PreviewArg(content, platforms, media) ==
    [content |-> content, platforms |-> platforms, media |-> media]

\* The arguments of a preview: content, platforms, media.  One call for
\* each way out of the validation, with and without media.
PreviewArgs ==
    {PreviewArg("New level!", <<"twitter">>, "none"),
     PreviewArg("New level!", <<"twitter">>, "latest"),
     PreviewArg("", <<"twitter">>, "latest"),
     PreviewArg("New level!", <<>>, "none"),
     PreviewArg("New level!", <<"twitter">>, "missing.jpg")}

\* _resolve_media_path gives a path for "latest" and None for a file that
\* is not there.
Resolves(media) == media = "latest"

\* Lines 298-315: the error a preview returns, or "ok".
PreviewOutcome(args) ==
    IF args.content = "" THEN "content_required"
    ELSE IF args.platforms = <<>> THEN "platforms_required"
    ELSE IF args.media # "none" /\ ~Resolves(args.media)
         THEN "media_unresolved"
    ELSE "ok"

NoPreview == [kind |-> "none", before |-> NoDraft, after |-> NoDraft]

\* pc: idle, accounts, upload, post (the request awaited), done.
\* draft: what _load_draft returned.  touched: the draft file was written
\* or removed by another call while this one was in flight.  after: the
\* calls that had returned when this one started.  left: the draft file
\* as the call left it when it returned.
NoPublish == [pc |-> "idle", draft |-> NoDraft, result |-> "none",
              touched |-> FALSE, after |-> {}, left |-> NoDraft]

Calls == 1..MaxPublish

DraftIdle ==
    /\ tmpfiles = [p \in DraftPaths |-> NoDraft]
    /\ apiKey = TRUE
    /\ pubs = [i \in Calls |-> NoPublish]
    /\ npre = 0
    /\ prev = NoPreview
    /\ posted = <<>>

DraftStart ==
    /\ tmpfiles = [p \in DraftPaths |-> NoDraft]
    /\ apiKey \in BOOLEAN
    /\ pubs = [i \in Calls |-> NoPublish]
    /\ npre = 0
    /\ prev = NoPreview
    /\ posted = <<>>

InFlight(i) == pubs[i].pc \in {"accounts", "upload", "post"}

\* The calls in flight, other than i, see the draft file change.
Touching(i) ==
    [j \in Calls |->
        IF j # i /\ InFlight(j) THEN [pubs[j] EXCEPT !.touched = TRUE]
        ELSE pubs[j]]

\* preview_social_post, lines 288-365.
Preview(args) ==
    /\ PreviewOutcome(args) = "ok" => npre < MaxPreviews
    /\ LET kind == PreviewOutcome(args)
           old == tmpfiles[PreviewDraftFile]
           new == [exists |-> TRUE, id |-> npre + 1,
                   content |-> args.content, media |-> args.media # "none"]
       IN IF kind = "ok"
          THEN /\ tmpfiles' = [tmpfiles EXCEPT ![PreviewDraftFile] = new]
               /\ npre' = npre + 1
               /\ prev' = [kind |-> kind, before |-> old, after |-> new]
               /\ pubs' = Touching(0)
          ELSE /\ prev' = [kind |-> kind, before |-> old, after |-> old]
               /\ UNCHANGED <<tmpfiles, npre, pubs>>
    /\ UNCHANGED <<apiKey, posted>>
    /\ UNCHANGED nonDraft

PubReturned(i, res) ==
    [pubs EXCEPT ![i].pc = "done", ![i].result = res,
                 ![i].left = tmpfiles[PublishDraftFile]]

\* publish_social_post, lines 65-104: the key, the draft, the first request.
PubStart(i) ==
    /\ pubs[i].pc = "idle"
    /\ \A j \in Calls : j < i => pubs[j].pc # "idle"
    /\ LET file == tmpfiles[PublishDraftFile]
           mine == [pubs[i] EXCEPT
                       !.after = {j \in Calls : pubs[j].pc = "done"}]
       IN pubs' = IF ~apiKey
                  THEN [pubs EXCEPT ![i] = [mine EXCEPT !.pc = "done",
                                                       !.result = "no_key",
                                                       !.left = file]]
                  ELSE IF ~file.exists
                  THEN [pubs EXCEPT ![i] = [mine EXCEPT !.pc = "done",
                                                       !.result = "no_draft",
                                                       !.left = file]]
                  ELSE [pubs EXCEPT ![i] = [mine EXCEPT !.pc = "accounts",
                                                       !.draft = file]]
    /\ UNCHANGED <<tmpfiles, apiKey, npre, prev, posted>>
    /\ UNCHANGED nonDraft

\* Lines 104-154: the accounts arrive, or the request fails, or a platform
\* has no account; then the upload or the post is requested.
PubAccounts(i, outcome) ==
    /\ pubs[i].pc = "accounts"
    /\ pubs' = IF outcome = "ok"
               THEN [pubs EXCEPT ![i].pc = IF pubs[i].draft.media
                                           THEN "upload" ELSE "post"]
               ELSE PubReturned(i, outcome)
    /\ UNCHANGED <<tmpfiles, apiKey, npre, prev, posted>>
    /\ UNCHANGED nonDraft

\* Lines 150-192: the upload is answered; the post is requested.
PubUpload(i, ok) ==
    /\ pubs[i].pc = "upload"
    /\ pubs' = IF ok THEN [pubs EXCEPT ![i].pc = "post"]
               ELSE PubReturned(i, "upload_error")
    /\ UNCHANGED <<tmpfiles, apiKey, npre, prev, posted>>
    /\ UNCHANGED nonDraft

\* A plausible slip: the clean-up runs on every way out.
RemovesDraftAlways(res) == TRUE

\* Lines 203-207 are reached only when the post was accepted.
RemovesDraft(res) == res = "published"

\* A plausible slip: the draft is kept after the post.
Kept(file) == file

\* os.remove(DRAFT_FILE); an OSError (no such file) is passed over.
Removed(file) == NoDraft

\* Lines 188-230: the post is answered; on success the draft is removed.
PubPost(i, ok) ==
    /\ pubs[i].pc = "post"
    /\ LET res == IF ok THEN "published" ELSE "post_error"
       IN /\ posted' = IF ok THEN Append(posted, pubs[i].draft.id)
                       ELSE posted
          /\ IF RemovesDraft(res)
             THEN /\ tmpfiles' = [tmpfiles EXCEPT
                                     ![PublishDraftFile] = Removed(@)]
                  /\ pubs' = [Touching(i) EXCEPT
                                 ![i].pc = "done", ![i].result = res,
                                 ![i].left = tmpfiles'[PublishDraftFile]]
             ELSE /\ pubs' = PubReturned(i, res)
                  /\ UNCHANGED tmpfiles
    /\ UNCHANGED <<apiKey, npre, prev>>
    /\ UNCHANGED nonDraft

(***************************************************************************)
(* Touch simulation.                                                       *)
(*                                                                         *)
(* simulate_tap and simulate_drag read the display info file of the        *)
(* identity, turn the percentages of their arguments into content          *)
(* coordinates and write one command to the touch control file.  The       *)
(* simulator's _mcp_touch module writes the display info when it is loaded *)
(* (io.open(infoFile, "w"), then file:write) and consumes the commands.    *)
(* os.path.exists and open are two file system calls.                      *)
(***************************************************************************)
MaxTouch == 3           \* touch calls in one behaviour
MaxBoots == 2           \* times the simulator writes the display info

Touch == "touch"

InfoKeys == {"contentWidth", "contentHeight"}

\* form: "json" for a JSON object, "empty" for a file opened with "w" and
\* not written yet.  keys: which of the two sizes the object has.
InfoData(form, keys, width, height) ==
    [form |-> form, keys |-> keys, w |-> width, h |-> height]

Truncated == InfoData("empty", {}, 0, 0)
Good == InfoData("json", InfoKeys, 320, 480)
ZeroWidth == InfoData("json", InfoKeys, 0, 480)
NoHeight == InfoData("json", {"contentWidth"}, 320, 0)

NoInfo == [exists |-> FALSE, data |-> Truncated]

InfoFile(data) == [exists |-> TRUE, data |-> data]

\* The percentages of a tap, or of the two boxes of a drag; given: none of
\* the required arguments is missing.
TapArgs ==
    {[given |-> TRUE, left |-> 40, right |-> 61, top |-> 0, bottom |-> 100],
     [given |-> FALSE, left |-> 0, right |-> 0, top |-> 0, bottom |-> 0]}

DragArgs ==
    {[given |-> TRUE, start_left |-> 0, start_right |-> 0, start_top |-> 0,
      start_bottom |-> 0, end_left |-> 40, end_right |-> 60, end_top |-> 90,
      end_bottom |-> 100, duration |-> 300],
     [given |-> FALSE, start_left |-> 0, start_right |-> 0, start_top |-> 0,
      start_bottom |-> 0, end_left |-> 0, end_right |-> 0, end_top |-> 0,
      end_bottom |-> 0, duration |-> 300]}

TouchArgs(kind) == IF kind = "tap" THEN TapArgs ELSE DragArgs

\* int(size * ((a + b) / 2) / 100)
Pixels(size, a, b) == (size * (a + b)) \div 200

\* Lines 180 and 246: the command text.
Command(kind, args, data) ==
    IF kind = "tap"
    THEN "tap," \o ToString(Pixels(data.w, args.left, args.right))
         \o "," \o ToString(Pixels(data.h, args.top, args.bottom))
    ELSE "drag,"
         \o ToString(Pixels(data.w, args.start_left, args.start_right))
         \o "," \o ToString(Pixels(data.h, args.start_top, args.start_bottom))
         \o "," \o ToString(Pixels(data.w, args.end_left, args.end_right))
         \o "," \o ToString(Pixels(data.h, args.end_top, args.end_bottom))
         \o "," \o ToString(args.duration)

\* A plausible slip: the sizes are used as they come.
UsableAlways(data) == TRUE

\* Lines 164-167 and 224-227: info.get gives None for a missing key, and
\* "not content_width" holds for None and for 0.
Usable(data) ==
    /\ "contentWidth" \in data.keys /\ data.w # 0
    /\ "contentHeight" \in data.keys /\ data.h # 0

\* pc: idle, found, computed, opened, done.  found: what os.path.exists
\* gave.  loaded: the file as the call read it.  opened: the call opened
\* the control file.
NoArgs == [given |-> FALSE]

NoTouch == [pc |-> "idle", id |-> 0, kind |-> "none", args |-> NoArgs,
            found |-> FALSE, loaded |-> NoInfo, cmd |-> "",
            opened |-> FALSE, result |-> "none"]

NoBoot == [pc |-> "idle", n |-> 0]

TouchIdle ==
    /\ info = NoInfo
    /\ boot = NoBoot
    /\ tc = NoTouch

\* The file may be there from an earlier run or from another writer.
TouchStart ==
    /\ info \in {NoInfo, InfoFile(Good), InfoFile(ZeroWidth),
                 InfoFile(NoHeight)}
    /\ boot = NoBoot
    /\ tc = NoTouch

\* writeDisplayInfo, run_project.py line 371: io.open(infoFile, "w").
BootOpen ==
    /\ boot.pc = "idle"
    /\ boot.n < MaxBoots
    /\ info' = InfoFile(Truncated)
    /\ boot' = [pc |-> "open", n |-> boot.n + 1]
    /\ UNCHANGED <<tc, ctl, wr>>
    /\ UNCHANGED nonTouch

\* Lines 372-375: file:write(json.encode(info)), file:close().
BootWrite ==
    /\ boot.pc = "open"
    /\ info' = InfoFile(Good)
    /\ boot' = [boot EXCEPT !.pc = "idle"]
    /\ UNCHANGED <<tc, ctl, wr>>
    /\ UNCHANGED nonTouch

\* The temporary directory is cleaned.
EnvRemoveInfo ==
    /\ boot.pc = "idle"
    /\ info.exists
    /\ info' = NoInfo
    /\ UNCHANGED <<boot, tc, ctl, wr>>
    /\ UNCHANGED nonTouch

TouchReturned(call, res) == [call EXCEPT !.pc = "done", !.result = res]

\* Lines 138-159 and 192-219: the arguments, os.path.exists(info_file).
TouchBegin(kind, args) ==
    /\ tc.pc \in {"idle", "done"}
    /\ tc.id < MaxTouch
    /\ LET call == [NoTouch EXCEPT !.id = tc.id + 1, !.kind = kind]
       IN tc' = IF ~args.given
                THEN TouchReturned(call, "args_required")
                ELSE IF ~info.exists
                THEN TouchReturned(call, "display_not_found")
                ELSE [call EXCEPT !.pc = "found", !.found = TRUE,
                                  !.args = args]
    /\ UNCHANGED <<info, boot, ctl, wr>>
    /\ UNCHANGED nonTouch

\* Lines 161-177 and 221-241: open and json.load, the sizes, the
\* coordinates; every exception ends the call.
TouchLoad ==
    /\ tc.pc = "found"
    /\ LET call == [tc EXCEPT !.loaded = info]
       IN tc' = IF ~info.exists \/ info.data.form # "json"
                THEN TouchReturned(call, "read_error")
                ELSE IF ~Usable(info.data)
                THEN TouchReturned(call, "invalid_info")
                ELSE [call EXCEPT !.pc = "computed",
                                  !.cmd = Command(tc.kind, tc.args,
                                                  info.data)]
    /\ UNCHANGED <<info, boot, ctl, wr>>
    /\ UNCHANGED nonTouch

\* Lines 181 and 247: open(control_file, 'w').
TouchOpen ==
    /\ tc.pc = "computed"
    /\ wr = NoWrite
    /\ ctl' = [ctl EXCEPT ![Touch] = Opened(@)]
    /\ wr' = [NoWrite EXCEPT !.chan = Touch,
                             !.cmd = [id |-> tc.id, text |-> tc.cmd]]
    /\ tc' = [tc EXCEPT !.pc = "opened", !.opened = TRUE]
    /\ UNCHANGED <<info, boot>>
    /\ UNCHANGED nonTouch

\* Lines 182 and 248: f.write(command) and the close of the with block.
TouchWrite ==
    /\ tc.pc = "opened"
    /\ ctl' = IF wr.unlinked
              THEN ctl
              ELSE [ctl EXCEPT ![Touch].content = Append(@, wr.cmd)]
    /\ wr' = NoWrite
    /\ tc' = TouchReturned(tc, "sent")
    /\ UNCHANGED <<info, boot>>
    /\ UNCHANGED nonTouch

(***************************************************************************)
(* A tool call taken alone.  The specifications below study one handler    *)
(* each, on the arguments and the files it is given.                       *)
(***************************************************************************)
NoTool == [name |-> "none"]

ToolIdle == tool = NoTool

\* The call is over; the next one may start.
ToolReset ==
    /\ tool # NoTool
    /\ tool.pc = "done"
    /\ tool' = NoTool
    /\ UNCHANGED ctl
    /\ UNCHANGED nonTool

(***************************************************************************)
(* start_screenshot_recording and the simulator's checkControl.  A         *)
(* duration is a JSON number, here in tenths of a second.                  *)
(***************************************************************************)
MaxDuration == 300      \* min(int(duration), 300)
DefaultDuration == 60   \* arguments.get("duration", 60)

Durations == (-25..25) \cup (2990..3015)

RecArgs ==
    {[given |-> FALSE, tenths |-> 0]}
        \cup {[given |-> TRUE, tenths |-> t] : t \in Durations}

\* int(duration): towards zero.
IntOf(tenths) ==
    IF tenths >= 0 THEN tenths \div 10 ELSE -((-tenths) \div 10)

\* min(n, 300)
Capped(n) == IF n < MaxDuration THEN n ELSE MaxDuration

\* str(n)
Str(n) == IF n < 0 THEN <<"-">> \o Digits(-n) ELSE Digits(n)

DigitValue(ch) == Ord(ch) - 3

RECURSIVE Value(_)
Value(text) ==
    IF text = <<>> THEN 0
    ELSE 10 * Value(SubSeq(text, 1, Len(text) - 1))
             + DigitValue(text[Len(text)])

\* tonumber(content) of a decimal integer.
ToNumber(text) ==
    IF Head(text) = "-" THEN -Value(Tail(text)) ELSE Value(text)

\* handle_start_recording, lines 108-130.
RecStart(args) ==
    /\ tool = NoTool
    /\ LET duration == IF args.given THEN IntOf(args.tenths)
                       ELSE DefaultDuration
           payload == Str(Capped(duration))
       IN /\ ctl' = [ctl EXCEPT ![Shot] =
                        [exists |-> TRUE,
                         content |-> <<[id |-> 1, text |-> payload]>>]]
          /\ tool' = [name |-> "start_screenshot_recording",
                      pc |-> "written", args |-> args,
                      payload |-> payload, reported |-> "started",
                      effect |-> "none", window |-> 0]
    /\ UNCHANGED nonTool

\* checkControl, run_project.py lines 204-227, on the text it reads.
RecCheck ==
    /\ tool # NoTool
    /\ tool.pc = "written"
    /\ ctl[Shot].exists
    /\ LET duration == ToNumber(ReadAll(ctl[Shot])[1].text)
       IN tool' = [tool EXCEPT
                      !.pc = "done",
                      !.effect = IF duration > 0 THEN "start"
                                 ELSE IF duration = 0 THEN "stop"
                                 ELSE "ignored",
                      !.window = IF duration > 0 THEN duration ELSE 0]
    /\ ctl' = [ctl EXCEPT ![Shot] = NoFile]
    /\ UNCHANGED nonTool

(***************************************************************************)
(* read_solar2d_logs, beside the simulator that writes the log.            *)
(***************************************************************************)
DefaultLines == 50      \* arguments.get("lines", 50)

LineArgs == {-1, 0, 1, 2, DefaultLines}

\* os.path.exists(log_file): the logger creates the file when it opens it
\* and nothing removes it.
LogExists == logf # <<>> \/ lg = "opened"

\* all_lines[start:]
SliceFrom(all, start) ==
    LET n == Len(all)
        from == IF start < 0
                THEN (IF n + start > 0 THEN n + start ELSE 0)
                ELSE (IF start < n THEN start ELSE n)
    IN SubSeq(all, from + 1, n)

\* Line 61.
Recent(all, lines) ==
    IF Len(all) > lines THEN SliceFrom(all, -lines) ELSE all

\* Lines 37-57: the arguments, the path and the existence test.
ReadBegin(lines) ==
    /\ tool = NoTool
    /\ tool' = [name |-> "read_solar2d_logs",
                pc |-> IF LogExists THEN "exists" ELSE "done",
                lines |-> lines,
                kind |-> IF LogExists THEN "none" ELSE "not_found",
                read |-> <<>>, text |-> <<>>]
    /\ UNCHANGED ctl
    /\ UNCHANGED nonTool

\* Lines 59-73: open(log_file, 'r'), readlines() and the answer.
ReadOpen ==
    /\ tool # NoTool
    /\ tool.name = "read_solar2d_logs"
    /\ tool.pc = "exists"
    /\ LET all_lines == Lines(logf)
           recent_lines == Recent(all_lines, tool.lines)
       IN tool' = [tool EXCEPT
                      !.pc = "done",
                      !.read = all_lines,
                      !.kind = IF recent_lines = <<>> THEN "empty"
                               ELSE "logs",
                      !.text = recent_lines]
    /\ UNCHANGED ctl
    /\ UNCHANGED nonTool

(***************************************************************************)
(* get_simulator_screenshot with 'last', a number or 'all', on a directory *)
(* that holds more than recorded frames.  A file name is its prefix, the   *)
(* characters that follow and its extension.                               *)
(***************************************************************************)
File(pre, stem, ext) == [pre |-> pre, stem |-> stem, ext |-> ext]

LatestFile == File("screenshot_", <<"l", "a", "t", "e", "s", "t">>, ".jpg")

Frame(num) == File("screenshot_", Format(num), ".jpg")

\* What the directory may hold: the on-demand capture, frames, and files
\* that are neither.
DirFiles ==
    {LatestFile, Frame(1), Frame(2),
     File("screenshot_", <<"l", "a", "s", "t">>, ".jpg"),
     File("screenshot_", <<"l", "a", "t", "e", "s", "t">>, ".png"),
     File("shot_", <<"0", "0", "1">>, ".jpg")}

\* A plausible slip: the filter without its third test.
PrefixAndSuffix(dir) ==
    {f \in dir : f.pre = "screenshot_" /\ f.ext = ".jpg"}

\* Lines 208-211, before the sort.
Recorded(dir) ==
    {f \in dir : /\ f.pre = "screenshot_"
                 /\ f.ext = ".jpg"
                 /\ f # LatestFile}

\* sorted(...)[-1] of names that share prefix and extension.
Greatest(files) ==
    CHOOSE f \in files :
        \A g \in files :
            g = f \/ LexLess(g.stem \o <<".">>, f.stem \o <<".">>)

Whiches == {"last", "all", "bogus", "0", "1", "2"}

\* int(which): the number, or -1 for a text that is none.
IntWhich(which) ==
    IF which = "0" THEN 0
    ELSE IF which = "1" THEN 1
    ELSE IF which = "2" THEN 2
    ELSE -1

\* files: what is returned as images; listed: what the manifest names.
Picked(which, kind, files, listed) ==
    [which |-> which, kind |-> kind, files |-> files, listed |-> listed]

\* Lines 207-290.
Resolve(dir, which) ==
    LET screenshots == Recorded(dir)
    IN IF which \in {"last", "all"} /\ screenshots = {}
       THEN Picked(which, "no_recorded", {}, {})
       ELSE IF which = "last"
       THEN Picked(which, "image", {Greatest(screenshots)}, {})
       ELSE IF which = "all"
       THEN Picked(which, "manifest", {}, screenshots)
       ELSE IF IntWhich(which) < 0
       THEN Picked(which, "invalid", {}, {})
       ELSE IF Frame(IntWhich(which)) \in screenshots
       THEN Picked(which, "image", {Frame(IntWhich(which))}, {})
       ELSE IF screenshots = {}
       THEN Picked(which, "no_recorded", {}, {})
       ELSE Picked(which, "not_found", {}, {})

\* One call on a directory.
GetRecorded(dir, which) ==
    /\ tool = NoTool
    /\ tool' = [name |-> "get_simulator_screenshot", pc |-> "done",
                dir |-> dir, got |-> Resolve(dir, which)]
    /\ UNCHANGED ctl
    /\ UNCHANGED nonTool

(***************************************************************************)
(* The project locator on a directory and on its entry script.             *)
(***************************************************************************)
\* find_main_lua(D) and find_main_lua(D/main.lua), with the directories
\* that hold a main.lua.
Locate(dir, mains) ==
    /\ tool = NoTool
    /\ tool' = [name |-> "find_main_lua", pc |-> "done",
                dir |-> dir, mains |-> mains,
                fromDir |-> find_main_lua(dir, mains),
                fromFile |-> find_main_lua(Join(dir, MainName), mains)]
    /\ UNCHANGED ctl
    /\ UNCHANGED nonTool

(***************************************************************************)
(* The artifacts of an identity.  Every path is a file name in the         *)
(* temporary directory, built from the identity by the tool that uses it   *)
(* and, once more, by the launch that writes it into the companion         *)
(* scripts.                                                                *)
(***************************************************************************)
TmpDir == "/tmp/"

Kinds == {"log", "shots", "shots_control", "touch_control", "display"}

\* Leaf names of project directories.
Identities == {"game", "game2", "game.control", "w"}

\* read_logs.py 49, screenshot.py 100 and 105, touch.py 128 and 133.
ToolPath(kind, project) ==
    IF kind = "log" THEN TmpDir \o "corona_log_" \o project \o ".txt"
    ELSE IF kind = "shots" THEN TmpDir \o "solar2d_screenshots_" \o project
    ELSE IF kind = "shots_control"
         THEN TmpDir \o "solar2d_screenshots_" \o project \o ".control"
    ELSE IF kind = "touch_control"
         THEN TmpDir \o "solar2d_touch_" \o project \o ".control"
    ELSE TmpDir \o "solar2d_display_" \o project \o ".json"

\* run_project.py 626, 91, 92, 247 and 248: the text put between the quotes
\* of mcp_log_file, screenshotDir, controlFile and infoFile.
BakedPath(kind, project) ==
    IF kind = "log" THEN TmpDir \o "corona_log_" \o project \o ".txt"
    ELSE IF kind = "shots" THEN TmpDir \o "solar2d_screenshots_" \o project
    ELSE IF kind = "shots_control"
         THEN TmpDir \o "solar2d_screenshots_" \o project \o ".control"
    ELSE IF kind = "touch_control"
         THEN TmpDir \o "solar2d_touch_" \o project \o ".control"
    ELSE TmpDir \o "solar2d_display_" \o project \o ".json"

\* A tool works on one artifact of an identity while the companion scripts
\* of another identity hold theirs.
Access(project, kind, other, kind2) ==
    /\ tool = NoTool
    /\ tool' = [name |-> "artifact", pc |-> "done",
                project |-> project, kind |-> kind,
                path |-> ToolPath(kind, project),
                baked |-> BakedPath(kind, project),
                other |-> other, kind2 |-> kind2,
                theirs |-> BakedPath(kind2, other)]
    /\ UNCHANGED ctl
    /\ UNCHANGED nonTool

(***************************************************************************)
(* update_trello_card on one card of the board.  The call awaits each      *)
(* request to Trello; between two requests another call of the tool, or a  *)
(* user of the board, may move the card.                                   *)
(***************************************************************************)
MaxUpdates == 2         \* update_trello_card calls in one behaviour
MaxUserMoves == 1       \* moves made on the board itself

\* LANE_NAMES, client.py lines 13-21.
Lanes == {"ideas", "planning", "blocked_plan", "backlog", "in_progress",
          "blocked_work", "done"}

\* client.py lines 25-33.
VALID_TRANSITIONS ==
    [role \in Lanes |->
        CASE role = "ideas" -> {"planning"}
          [] role = "planning" -> {"blocked_plan", "backlog"}
          [] role = "blocked_plan" -> {"planning"}
          [] role = "backlog" -> {"in_progress"}
          [] role = "in_progress" -> {"blocked_work", "done"}
          [] role = "blocked_work" -> {"in_progress"}
          [] role = "done" -> {}]

\* A plausible slip: no validation of the transition.
AllowedAny(role) == Lanes

\* Lines 134-137: VALID_TRANSITIONS.get(current_role, []).
Allowed(role) == VALID_TRANSITIONS[role]

BlockedLanes == {"blocked_plan", "blocked_work"}

\* The lists of the board: the workflow lanes, all in the lane map, and a
\* list that is none of them.
Lists == Lanes \cup {"other"}

\* lane: the lane asked for, "none" when the argument is absent, "bogus"
\* for a name that is no lane.  rename: a new name is given.
UpdateArgs ==
    {args \in [lane : Lanes \cup {"none", "bogus"},
               reason : BOOLEAN,
               rename : BOOLEAN] :
        args.reason => args.lane \in BlockedLanes}

\* seen: the list the GET answered.  wrote: write requests sent.
NoUpdate == [pc |-> "idle", lane |-> "none", reason |-> FALSE,
             rename |-> FALSE, seen |-> "none", outcome |-> "none",
             wrote |-> 0]

Updates == 1..MaxUpdates

TrelloStart ==
    \E list \in Lists :
        tool = [name |-> "update_trello_card", card |-> list,
                calls |-> [i \in Updates |-> NoUpdate],
                moves |-> <<>>, users |-> 0]

Ended(call, outcome) == [call EXCEPT !.pc = "done", !.outcome = outcome]

\* Lines 92-122: the arguments.
UpdBegin(i, args) ==
    /\ tool.calls[i].pc = "idle"
    /\ \A j \in Updates : j < i => tool.calls[j].pc # "idle"
    /\ LET call == [tool.calls[i] EXCEPT !.lane = args.lane,
                                          !.reason = args.reason,
                                          !.rename = args.rename]
       IN tool' = [tool EXCEPT !.calls[i] =
              IF args.lane = "none" THEN [call EXCEPT !.pc = "fields"]
              ELSE IF args.lane \notin Lanes
                   THEN Ended(call, "unknown_lane")
              ELSE IF args.lane \in BlockedLanes /\ ~args.reason
                   THEN Ended(call, "reason_required")
              ELSE [call EXCEPT !.pc = "fetch"]]
    /\ UNCHANGED ctl
    /\ UNCHANGED nonTool

\* Lines 124-143: the answer of GET /cards/{id} and the validation.
UpdFetched(i, ok) ==
    /\ tool.calls[i].pc = "fetch"
    /\ LET call == tool.calls[i]
           current_role == tool.card
       IN tool' = [tool EXCEPT !.calls[i] =
              IF ~ok THEN Ended(call, "fetch_error")
              ELSE IF current_role \in Lanes
                      /\ call.lane \notin Allowed(current_role)
                   THEN Ended([call EXCEPT !.seen = current_role],
                              "rejected")
              ELSE [call EXCEPT !.seen = current_role, !.pc = "put"]]
    /\ UNCHANGED ctl
    /\ UNCHANGED nonTool

\* Lines 145-161: PUT idList reaches the board, then the comment with the
\* blocked reason.
UpdMoved(i, ok) ==
    /\ tool.calls[i].pc = "put"
    /\ LET call == tool.calls[i]
           comment == IF call.reason /\ call.lane \in BlockedLanes
                      THEN 1 ELSE 0
       IN tool' =
              IF ok
              THEN [tool EXCEPT
                       !.card = call.lane,
                       !.moves = Append(@, [from |-> tool.card,
                                            to |-> call.lane]),
                       !.calls[i] = [call EXCEPT
                                        !.pc = "fields",
                                        !.wrote = @ + 1 + comment]]
              ELSE [tool EXCEPT
                       !.calls[i] = Ended([call EXCEPT !.wrote = @ + 1],
                                          "move_error")]
    /\ UNCHANGED ctl
    /\ UNCHANGED nonTool

\* Lines 163-182 and 242-244: the name, and the answer.
UpdFields(i) ==
    /\ tool.calls[i].pc = "fields"
    /\ LET call == tool.calls[i]
       IN tool' = [tool EXCEPT !.calls[i] =
              IF call.rename
              THEN Ended([call EXCEPT !.wrote = @ + 1], "updated")
              ELSE IF call.lane = "none" THEN Ended(call, "no_changes")
              ELSE Ended(call, "updated")]
    /\ UNCHANGED ctl
    /\ UNCHANGED nonTool

\* Someone drags the card to another list on the board.
UserMove(list) ==
    /\ tool.users < MaxUserMoves
    /\ list # tool.card
    /\ tool' = [tool EXCEPT !.card = list, !.users = @ + 1]
    /\ UNCHANGED ctl
    /\ UNCHANGED nonTool

(***************************************************************************)
(* The tool-call boundary.  A handler meets the faults of its arguments    *)
(* and of the file system in the order of its code; each place is behind   *)
(* an explicit test ("checked"), inside a try ("caught"), or neither       *)
(* ("bare").                                                               *)
(***************************************************************************)
Faults ==
    {"no_project_path", "bad_duration", "control_unwritable",
     "dir_unwritable", "main_missing", "log_missing", "log_unreadable",
     "spawn_fails"}

Step(fault, guard) == [fault |-> fault, guard |-> guard]

\* _HANDLERS of tools/__init__.py, four of its entries: run_project.handle
\* (lines 565-697), handle_start_recording, handle_stop_recording and
\* read_logs.handle.
Handlers ==
    [name \in {"run_solar2d_project", "start_screenshot_recording",
               "stop_screenshot_recording", "read_solar2d_logs"} |->
        CASE name = "run_solar2d_project" ->
                 <<Step("no_project_path", "checked"),
                   Step("main_missing", "checked"),
                   Step("dir_unwritable", "bare"),
                   Step("spawn_fails", "caught")>>
          [] name = "start_screenshot_recording" ->
                 <<Step("no_project_path", "checked"),
                   Step("bad_duration", "bare"),
                   Step("control_unwritable", "bare")>>
          [] name = "stop_screenshot_recording" ->
                 <<Step("no_project_path", "checked"),
                   Step("control_unwritable", "bare")>>
          [] name = "read_solar2d_logs" ->
                 <<Step("no_project_path", "checked"),
                   Step("log_missing", "checked"),
                   Step("log_unreadable", "caught")>>]

ToolNames == DOMAIN Handlers \cup {"no_such_tool"}

RECURSIVE Run(_, _)
\* The handler runs up to the first fault it meets.
Run(steps, faults) ==
    IF steps = <<>> THEN [kind |-> "text", error |-> "none"]
    ELSE IF Head(steps).fault \in faults
         THEN [kind |-> IF Head(steps).guard = "bare" THEN "raised"
                        ELSE "text",
               error |-> Head(steps).fault]
    ELSE Run(Tail(steps), faults)

\* call_tool, tools/__init__.py lines 37-42.
CallTool(name, faults) ==
    /\ tool = NoTool
    /\ tool' = [name |-> "call_tool", pc |-> "done",
                called |-> name, faults |-> faults,
                outcome |-> IF name \notin DOMAIN Handlers
                            THEN [kind |-> "raised",
                                  error |-> "unknown_tool"]
                            ELSE Run(Handlers[name], faults)]
    /\ UNCHANGED ctl
    /\ UNCHANGED nonTool

(***************************************************************************)
(* The log, screenshot and touch tools beside the running-instance map.    *)
(* The same call is made on the same files with two maps; what a call      *)
(* gives is its result and the file operations it performs, in order.      *)
(***************************************************************************)
MapTools ==
    {"read_solar2d_logs", "start_screenshot_recording",
     "stop_screenshot_recording", "get_simulator_screenshot",
     "list_screenshots", "simulate_tap", "simulate_drag",
     "get_display_info"}

\* The maps: empty, as for a simulator started by hand, or one entry.
Maps ==
    {<<>>}
        \cup {With(<<>>, dir, Entry([pid |-> 1, dir |-> dir,
                                     path |-> Join(dir, MainName)])) :
                 dir \in {DirG, DirW}}

Op(what, path) == <<what, path>>

\* A plausible slip: the log file of the tracked entry.
LogFileTracked(m, dir) ==
    IF dir \in DOMAIN m THEN ToolPath("log", project_name(dir)) ELSE ""

\* read_logs.py lines 43-49: the path is computed from the project's name,
\* whatever running_projects holds.
LogFileFor(m, dir) == ToolPath("log", project_name(dir))

Gives(res, ops) == [result |-> res, ops |-> ops]

\* The handlers on a project directory: fs, the kinds of artifact that are
\* there; polled, a simulator of the project polls its control files.
Effect(call, m, dir, fs, polled) ==
    LET project == project_name(dir)
        log_file == LogFileFor(m, dir)
        screenshot_dir == ToolPath("shots", project)
        control == ToolPath("shots_control", project)
        touch_control == ToolPath("touch_control", project)
        info_file == ToolPath("display", project)
    IN CASE call = "read_solar2d_logs" ->
                IF "log" \in fs /\ log_file = ToolPath("log", project)
                THEN Gives("logs", <<Op("exists", log_file),
                                     Op("read", log_file)>>)
                ELSE Gives("log_not_found", <<Op("exists", log_file)>>)
         [] call \in {"start_screenshot_recording",
                      "stop_screenshot_recording"} ->
                Gives(IF call = "start_screenshot_recording"
                      THEN "started" ELSE "stopped",
                      <<Op("write", control)>>)
         [] call = "get_simulator_screenshot" ->
                Gives(IF polled THEN "image" ELSE "timeout",
                      <<Op("makedirs", screenshot_dir), Op("write", control),
                        Op("stat", screenshot_dir)>>
                          \o (IF polled THEN <<Op("read", screenshot_dir)>> ELSE <<>>))
         [] call = "list_screenshots" ->
                IF "shots" \in fs
                THEN Gives("listing", <<Op("exists", screenshot_dir),
                                        Op("listdir", screenshot_dir)>>)
                ELSE Gives("dir_not_found", <<Op("exists", screenshot_dir)>>)
         [] call \in {"simulate_tap", "simulate_drag"} ->
                IF "display" \in fs
                THEN Gives("sent", <<Op("exists", info_file),
                                     Op("read", info_file),
                                     Op("write", touch_control)>>)
                ELSE Gives("display_not_found",
                           <<Op("exists", info_file)>>)
         [] call = "get_display_info" ->
                IF "display" \in fs
                THEN Gives("info", <<Op("exists", info_file),
                                     Op("read", info_file)>>)
                ELSE Gives("display_not_found",
                           <<Op("exists", info_file)>>)

\* One call, made with the map m1 and made with the map m2.
Twice(call, dir, fs, polled, m1, m2) ==
    /\ tool = NoTool
    /\ tool' = [name |-> "twice", pc |-> "done", call |-> call,
                dir |-> dir, fs |-> fs, polled |-> polled,
                maps |-> <<m1, m2>>,
                gave |-> <<Effect(call, m1, dir, fs, polled),
                           Effect(call, m2, dir, fs, polled)>>]
    /\ UNCHANGED ctl
    /\ UNCHANGED nonTool

(***************************************************************************)
(* The screenshot module inside one simulator (_mcp_screenshot.lua):       *)
(* recordingEndTime, screenshotCount, the screenshot directory and the two *)
(* timers, checkControl and captureScreen.  Time is system.getTimer() in   *)
(* seconds; it starts at 0 with each simulator.                            *)
(***************************************************************************)
MaxNow == 3             \* seconds one simulator is followed
MaxFrames == 3          \* frames numbered in one simulator run
MaxSimRuns == 2         \* simulator starts in one behaviour

NowToken == <<"n", "o", "w">>

\* What a poll may find in the control file: the trigger, durations, the
\* stop value, a negative number, no text at all and a text that is none
\* of these.
ControlTexts ==
    {NowToken, <<>>, <<"t", "a", "l", "e">>} \cup {Str(n) : n \in -1..2}

IsDigit(ch) == ch \in {Digit(d) : d \in 0..9}

\* tonumber(content) gives a number for a decimal integer.
Numeric(text) ==
    /\ text # <<>>
    /\ LET digits == IF Head(text) = "-" THEN Tail(text) ELSE text
       IN /\ digits # <<>>
          /\ \A k \in 1..Len(digits) : IsDigit(digits[k])

\* A plausible slip: a new duration is added to a window that is open.
WindowStacked(end, at, duration) ==
    IF duration > 0
    THEN (IF at < end THEN end + duration ELSE at + duration)
    ELSE IF duration = 0 THEN 0
    ELSE end

\* checkControl, lines 217-225: recordingEndTime after a number was read.
Window(end, at, duration) ==
    IF duration > 0 THEN at + duration
    ELSE IF duration = 0 THEN 0
    ELSE end

\* A plausible slip: the stop command starts the numbering again.
CountRestarted(count, duration) == IF duration = 0 THEN 0 ELSE count

\* checkControl never assigns screenshotCount.
Counted(count, duration) == count

\* A plausible slip: the on-demand capture kept from the last run.
ClearedFrames(dir) == dir \cap {LatestFile}

\* clearScreenshotDir, lines 125-135: every file of the directory removed.
Cleared(dir) == {}

\* A plausible slip: the on-demand capture takes a number of the series.
OnDemandNumbered(st) ==
    [st EXCEPT !.count = @ + 1, !.dir = @ \cup {Frame(st.count + 1)}]

\* captureOnDemand, lines 181-202, when the copy succeeds.
OnDemand(st) == [st EXCEPT !.dir = @ \cup {LatestFile}]

\* isRecording, lines 137-139.
isRecording(st) == st.at < st.end

\* at: the timer; end: recordingEndTime; count: screenshotCount; dir: the
\* files of the screenshot directory; did: the step last taken, with the
\* module as it was before it.
Module(at, end, count, dir, starts) ==
    [at |-> at, end |-> end, count |-> count, dir |-> dir,
     starts |-> starts]

Did(op, text, before) == [op |-> op, text |-> text, before |-> before]

\* Lines 229-235: the module is loaded in a new simulator.
Loaded(dir, starts) == Module(0, 0, 0, Cleared(dir), starts)

SimStarted ==
    \E dir \in SUBSET {LatestFile, Frame(1), Frame(2)} :
        tool = [name |-> "simulator", st |-> Loaded(dir, 1),
                did |-> Did("load", <<>>, Module(0, 0, 0, dir, 0))]

\* A tool writes the control file (see the control channel for the steps).
SimPut(text) ==
    /\ ctl' = [ctl EXCEPT ![Shot] =
                  [exists |-> TRUE,
                   content |-> <<[id |-> 1, text |-> text]>>]]
    /\ tool' = [tool EXCEPT !.did = Did("put", text, tool.st)]
    /\ UNCHANGED nonTool

\* checkControl, lines 204-227, with readControlFile finding the file.
SimCheck ==
    /\ ctl[Shot].exists
    /\ LET content == ReadAll(ctl[Shot])[1].text
           st == tool.st
       IN tool' = [tool EXCEPT
              !.st = IF content = NowToken THEN OnDemand(st)
                     ELSE IF ~Numeric(content) THEN st
                     ELSE [st EXCEPT
                              !.end = Window(@, st.at, ToNumber(content)),
                              !.count = Counted(@, ToNumber(content))],
              !.did = Did("check", content, st)]
    /\ ctl' = [ctl EXCEPT ![Shot] = NoFile]
    /\ UNCHANGED nonTool

\* captureScreen, lines 156-179; copied: copyFile put the frame into the
\* directory.
SimCapture(copied) ==
    /\ tool.st.count < MaxFrames
    /\ LET st == tool.st
           number == st.count + 1
       IN tool' = [tool EXCEPT
              !.st = IF ~isRecording(st) THEN st
                     ELSE [st EXCEPT
                              !.count = number,
                              !.dir = IF copied THEN @ \cup {Frame(number)}
                                      ELSE @],
              !.did = Did("capture", <<>>, st)]
    /\ tool' # tool
    /\ UNCHANGED ctl
    /\ UNCHANGED nonTool

\* A second passes.
SimTick ==
    /\ tool.st.at < MaxNow
    /\ tool' = [tool EXCEPT !.st.at = @ + 1,
                            !.did = Did("tick", <<>>, tool.st)]
    /\ UNCHANGED ctl
    /\ UNCHANGED nonTool

\* The simulator is started again for the project: a new Lua state.
SimRestart ==
    /\ tool.st.starts < MaxSimRuns
    /\ tool' = [tool EXCEPT !.st = Loaded(tool.st.dir, tool.st.starts + 1),
                            !.did = Did("load", <<>>, tool.st)]
    /\ UNCHANGED ctl
    /\ UNCHANGED nonTool

(***************************************************************************)
(* The tool list and the dispatcher (tools/__init__.py).  A session is the *)
(* calls a client makes one after another; the dispatcher keeps no state   *)
(* between them.                                                           *)
(***************************************************************************)
MaxSession == 2

\* screenshot.TOOLS, screenshot.py line 88.
ScreenshotTools ==
    <<"start_screenshot_recording", "stop_screenshot_recording",
      "get_simulator_screenshot", "list_screenshots">>

\* touch.TOOLS, touch.py line 116.
TouchTools == <<"simulate_tap", "simulate_drag", "get_display_info">>

\* social.TOOLS, social/__init__.py lines 12-16.
SocialTools ==
    <<"configure_social_media", "preview_social_post", "publish_social_post">>

\* TOOLS, lines 11-19: the names of the tools the server lists.
TOOLS ==
    <<"configure_solar2d", "run_solar2d_project", "read_solar2d_logs",
      "list_running_projects">> \o ScreenshotTools \o TouchTools \o SocialTools

Advertised == {TOOLS[i] : i \in DOMAIN TOOLS}

\* social.HANDLERS, social/__init__.py lines 18-22.
SocialHandlers ==
    {"configure_social_media", "preview_social_post", "publish_social_post"}

\* The keys of _HANDLERS, lines 22-34.
HandlerKeys ==
    {"configure_solar2d", "run_solar2d_project", "read_solar2d_logs",
     "list_running_projects", "start_screenshot_recording",
     "stop_screenshot_recording", "get_simulator_screenshot",
     "list_screenshots", "simulate_tap", "get_display_info"}
        \cup SocialHandlers

\* The names a client can send: those it was told, those the dispatcher
\* knows, and one that is neither.
CallNames == Advertised \cup HandlerKeys \cup {"no_such_tool"}

\* Lines 39-42: the handler is looked up by name; a name without one raises
\* ValueError("Unknown tool: ...").
Dispatched(name) ==
    [called |-> name,
     outcome |-> IF name \in HandlerKeys THEN "handled" ELSE "unknown_tool"]

\* One call of the session goes through call_tool.
Dispatch(name) ==
    /\ \/ /\ tool = NoTool
          /\ tool' = [name |-> "session", pc |-> "open",
                      calls |-> <<Dispatched(name)>>]
       \/ /\ tool # NoTool
          /\ tool.pc = "open"
          /\ Len(tool.calls) < MaxSession
          /\ tool' = [tool EXCEPT !.calls = Append(@, Dispatched(name))]
    /\ UNCHANGED ctl
    /\ UNCHANGED nonTool

\* The client disconnects.
SessionEnd ==
    /\ tool # NoTool
    /\ tool.pc = "open"
    /\ tool' = [tool EXCEPT !.pc = "done"]
    /\ UNCHANGED ctl
    /\ UNCHANGED nonTool

(***************************************************************************)
(* main.lua as the file holds it.  inject_module_into_main_lua opens the   *)
(* file in text mode: read() gives the content with every line ending      *)
(* ("\r\n", "\r", "\n") turned into "\n", and write() puts the text down   *)
(* as it is (os.linesep is "\n" where the simulator paths of config.py     *)
(* exist).  The file is a sequence of line endings and of line bodies; a   *)
(* body is one of the Lua lines above.                                     *)
(***************************************************************************)
MaxBytes == 4           \* bodies and line-ending characters of main.lua

CR == "\r"
LF == "\n"

CodeLines == {LCode, LComment, LMobdebug}

RECURSIVE BytesOf(_)
BytesOf(n) ==
    IF n = 0 THEN {<<>>}
    ELSE {Append(t, b) : t \in BytesOf(n - 1), b \in CodeLines \cup {CR, LF}}

\* Two bodies side by side would be one body.
MainTexts ==
    {t \in UNION {BytesOf(n) : n \in 0..MaxBytes} :
        \A i \in 1..(Len(t) - 1) :
            ~(t[i] \in CodeLines /\ t[i + 1] \in CodeLines)}

RECURSIVE Universal(_)
\* Line 469, f.read() of a file opened with open(path, 'r'): universal
\* newlines.
Universal(bytes) ==
    IF bytes = <<>> THEN <<>>
    ELSE IF Head(bytes) = CR
         THEN IF Len(bytes) >= 2 /\ bytes[2] = LF
              THEN <<LF>> \o Universal(SubSeq(bytes, 3, Len(bytes)))
              ELSE <<LF>> \o Universal(Tail(bytes))
    ELSE <<Head(bytes)>> \o Universal(Tail(bytes))

RECURSIVE SplitLines(_)
\* Line 479: content.split('\n').
SplitLines(content) ==
    IF \E i \in 1..Len(content) : content[i] = LF
    THEN LET i == Min({k \in 1..Len(content) : content[k] = LF})
         IN <<IF i = 1 THEN LBlank ELSE content[1]>>
                \o SplitLines(SubSeq(content, i + 1, Len(content)))
    ELSE <<IF content = <<>> THEN LBlank ELSE content[1]>>

RECURSIVE JoinLines(_)
\* Line 508: '\n'.join(lines), written as it is.
JoinLines(lines) ==
    LET body == IF Head(lines) = LBlank THEN <<>> ELSE <<Head(lines)>>
    IN IF Len(lines) = 1 THEN body
       ELSE body \o <<LF>> \o JoinLines(Tail(lines))

\* Lines 466-514 on the file: the return value and the file it leaves.  The
\* file is written only when the reference was absent.
InjectMain(bytes, module_name) ==
    LET out == CHOOSE o \in Inject(SplitLines(Universal(bytes)),
                                   module_name, "none") : TRUE
    IN [ret |-> out.ret,
        file |-> IF out.ret THEN JoinLines(out.text) ELSE bytes]

\* handle, lines 617-635, on a main.lua the user wrote.
MainBegin(bytes) ==
    /\ tool = NoTool
    /\ tool' = [name |-> "inject", pc |-> "open", orig |-> bytes,
                file |-> bytes, k |-> 1, rets |-> <<>>, before |-> bytes]
    /\ UNCHANGED ctl
    /\ UNCHANGED nonTool

\* handle, lines 638-640: the next call of inject_module_into_main_lua.
MainStep ==
    /\ tool # NoTool
    /\ tool.pc = "open"
    /\ LET out == InjectMain(tool.file, Modules[tool.k])
       IN tool' = [tool EXCEPT !.before = tool.file,
                               !.file = out.file,
                               !.rets = Append(@, out.ret),
                               !.k = IF @ = 3 THEN @ ELSE @ + 1,
                               !.pc = IF tool.k = 3 THEN "done" ELSE "open"]
    /\ UNCHANGED ctl
    /\ UNCHANGED nonTool

(***************************************************************************)
(* The specifications.                                                     *)
(***************************************************************************)
Init == SupInit /\ ChanIdle /\ ShotIdle /\ LogIdle /\ InjIdle /\ FramesIdle /\ DraftIdle /\ ListIdle /\ TouchIdle /\ ToolIdle

Next ==
    \/ \E i \in 1..MaxLaunch : i <= Len(procs) /\ ProcExit(i)
    \/ \E d \in ToggleDirs : EnvToggleMain(d)
    \/ EnvConfigure
    \/ \E p \in ProjectPaths \cup {NoPath} : RunReject(p)
    \/ \E p \in ProjectPaths : RunEvict(p)
    \/ RunPrepare
    \/ RunPopen
    \/ RunRegister
    \/ List
    \/ ListReturn

Spec == Init /\ [][Next]_vars

SupIdle ==
    /\ running_projects = <<>>
    /\ procs = <<>>
    /\ mainLua = {DirW, DirG, DirXG}
    /\ simOk = TRUE
    /\ pc = "idle"
    /\ h = NoCall
    /\ result = "none"

InitChan == ChanIdle /\ SupIdle /\ ShotIdle /\ LogIdle /\ InjIdle /\ FramesIdle /\ DraftIdle /\ ListIdle /\ TouchIdle /\ ToolIdle

NextChan ==
    \/ \E c \in Chans : \E text \in Payloads(c) : WOpen(c, text)
    \/ WClose
    \/ \E c \in Chans : RRead(c)
    \/ \E c \in Chans : RRemove(c)

SpecChan == InitChan /\ [][NextChan]_vars

InitShot == ShotIdle /\ ChanIdle /\ SupIdle /\ LogIdle /\ InjIdle /\ FramesIdle /\ DraftIdle /\ ListIdle /\ TouchIdle /\ ToolIdle

NextShot ==
    \/ CapOpen
    \/ CapWrite
    \/ CapBaseExists
    \/ CapBaseStat
    \/ CapPollExists
    \/ CapPollStat
    \/ CapRead
    \/ SimStart
    \/ SimStop
    \/ SimRead
    \/ SimRemove
    \/ SimSave
    \/ SimCopyDone
    \/ Tick

SpecShot == InitShot /\ [][NextShot]_vars

InitLog == LogStart /\ ChanIdle /\ ShotIdle /\ SupIdle /\ InjIdle /\ FramesIdle /\ DraftIdle /\ ListIdle /\ TouchIdle /\ ToolIdle

NextLog ==
    \/ LogLaunch
    \/ LogTruncate
    \/ LogBanner
    \/ LogInitPrint
    \/ \E args \in PrintArgs : LogPrint(args)
    \/ LogExit

SpecLog == InitLog /\ [][NextLog]_vars

InitInj == InjStart /\ LogIdle /\ ChanIdle /\ ShotIdle /\ SupIdle /\ FramesIdle /\ DraftIdle /\ ListIdle /\ TouchIdle /\ ToolIdle

NextInj ==
    \/ InjBegin
    \/ InjStep("none")
    \/ \E ok \in BOOLEAN : InjPopen(ok)

SpecInj == InitInj /\ [][NextInj]_vars

NextInjIO ==
    \/ InjBegin
    \/ \E fail \in Failures \cup {"none"} : InjStep(fail)
    \/ \E ok \in BOOLEAN : InjPopen(ok)

SpecInjIO == InitInj /\ [][NextInjIO]_vars

InitFrames ==
    /\ FramesStart /\ InjIdle /\ LogIdle /\ ChanIdle /\ ShotIdle
    /\ SupIdle /\ DraftIdle /\ ListIdle /\ TouchIdle /\ ToolIdle

NextFrames ==
    \/ \E on \in BOOLEAN : FrameRecord(on)
    \/ FrameCapture
    \/ FrameRestart
    \/ GetLast
    \/ \E num \in Selectors : GetNumber(num)

SpecFrames == InitFrames /\ [][NextFrames]_vars

InitDraft ==
    /\ DraftStart /\ FramesIdle /\ InjIdle /\ LogIdle /\ ChanIdle
    /\ ShotIdle /\ SupIdle /\ ListIdle /\ TouchIdle /\ ToolIdle

NextDraft ==
    \/ \E args \in PreviewArgs : Preview(args)
    \/ \E i \in Calls : PubStart(i)
    \/ \E i \in Calls :
           \E outcome \in {"ok", "accounts_error", "missing_accounts"} :
               PubAccounts(i, outcome)
    \/ \E i \in Calls : \E ok \in BOOLEAN : PubUpload(i, ok)
    \/ \E i \in Calls : \E ok \in BOOLEAN : PubPost(i, ok)

SpecDraft == InitDraft /\ [][NextDraft]_vars

InitTouch ==
    /\ TouchStart /\ ChanIdle /\ SupIdle /\ ShotIdle /\ LogIdle /\ InjIdle
    /\ FramesIdle /\ DraftIdle /\ ListIdle /\ ToolIdle

NextTouch ==
    \/ BootOpen
    \/ BootWrite
    \/ EnvRemoveInfo
    \/ \E kind \in {"tap", "drag"} :
           \E args \in TouchArgs(kind) : TouchBegin(kind, args)
    \/ TouchLoad
    \/ TouchOpen
    \/ TouchWrite
    \/ RRead(Touch)
    \/ RRemove(Touch)

SpecTouch == InitTouch /\ [][NextTouch]_vars

InitRec ==
    /\ ToolIdle /\ ChanIdle /\ SupIdle /\ ShotIdle /\ LogIdle /\ InjIdle
    /\ FramesIdle /\ DraftIdle /\ ListIdle /\ TouchIdle

NextRec ==
    \/ \E args \in RecArgs : RecStart(args)
    \/ RecCheck
    \/ ToolReset

SpecRec == InitRec /\ [][NextRec]_vars

InitRead ==
    /\ LogStart /\ ToolIdle /\ ChanIdle /\ SupIdle /\ ShotIdle /\ InjIdle
    /\ FramesIdle /\ DraftIdle /\ ListIdle /\ TouchIdle

NextRead ==
    \/ NextLog
    \/ \E lines \in LineArgs : ReadBegin(lines)
    \/ ReadOpen
    \/ ToolReset

SpecRead == InitRead /\ [][NextRead]_vars

InitGet ==
    /\ ToolIdle /\ ChanIdle /\ SupIdle /\ ShotIdle /\ LogIdle /\ InjIdle
    /\ FramesIdle /\ DraftIdle /\ ListIdle /\ TouchIdle

NextGet ==
    \/ \E dir \in SUBSET DirFiles : \E which \in Whiches :
           GetRecorded(dir, which)
    \/ ToolReset

SpecGet == InitGet /\ [][NextGet]_vars

InitLocate ==
    /\ ToolIdle /\ ChanIdle /\ SupIdle /\ ShotIdle /\ LogIdle /\ InjIdle
    /\ FramesIdle /\ DraftIdle /\ ListIdle /\ TouchIdle

NextLocate ==
    \/ \E dir \in AllDirs \cup {DirM, Nope} :
       \E mains \in SUBSET (AllDirs \cup {DirM}) : Locate(dir, mains)
    \/ ToolReset

SpecLocate == InitLocate /\ [][NextLocate]_vars

InitNames ==
    /\ ToolIdle /\ ChanIdle /\ SupIdle /\ ShotIdle /\ LogIdle /\ InjIdle
    /\ FramesIdle /\ DraftIdle /\ ListIdle /\ TouchIdle

NextNames ==
    \/ \E project, other \in Identities : \E kind, kind2 \in Kinds :
           Access(project, kind, other, kind2)
    \/ ToolReset

SpecNames == InitNames /\ [][NextNames]_vars

InitTrello ==
    /\ TrelloStart /\ ChanIdle /\ SupIdle /\ ShotIdle /\ LogIdle /\ InjIdle
    /\ FramesIdle /\ DraftIdle /\ ListIdle /\ TouchIdle

NextTrello ==
    \/ \E i \in Updates : \E args \in UpdateArgs : UpdBegin(i, args)
    \/ \E i \in Updates : \E ok \in BOOLEAN : UpdFetched(i, ok)
    \/ \E i \in Updates : \E ok \in BOOLEAN : UpdMoved(i, ok)
    \/ \E i \in Updates : UpdFields(i)
    \/ \E list \in Lists : UserMove(list)

SpecTrello == InitTrello /\ [][NextTrello]_vars

InitCall ==
    /\ ToolIdle /\ ChanIdle /\ SupIdle /\ ShotIdle /\ LogIdle /\ InjIdle
    /\ FramesIdle /\ DraftIdle /\ ListIdle /\ TouchIdle

NextCall ==
    \/ \E name \in ToolNames : \E faults \in SUBSET Faults :
           CallTool(name, faults)
    \/ ToolReset

SpecCall == InitCall /\ [][NextCall]_vars

InitTwice ==
    /\ ToolIdle /\ ChanIdle /\ SupIdle /\ ShotIdle /\ LogIdle /\ InjIdle
    /\ FramesIdle /\ DraftIdle /\ ListIdle /\ TouchIdle

NextTwice ==
    \/ \E call \in MapTools : \E dir \in {DirG, DirW} :
       \E fs \in SUBSET Kinds : \E polled \in BOOLEAN :
       \E m1, m2 \in Maps : Twice(call, dir, fs, polled, m1, m2)
    \/ ToolReset

SpecTwice == InitTwice /\ [][NextTwice]_vars

InitSim ==
    /\ SimStarted /\ ChanIdle /\ SupIdle /\ ShotIdle /\ LogIdle /\ InjIdle
    /\ FramesIdle /\ DraftIdle /\ ListIdle /\ TouchIdle

NextSim ==
    \/ \E text \in ControlTexts : SimPut(text)
    \/ SimCheck
    \/ \E copied \in BOOLEAN : SimCapture(copied)
    \/ SimTick
    \/ SimRestart

SpecSim == InitSim /\ [][NextSim]_vars

InitDispatch ==
    /\ ToolIdle /\ ChanIdle /\ SupIdle /\ ShotIdle /\ LogIdle /\ InjIdle
    /\ FramesIdle /\ DraftIdle /\ ListIdle /\ TouchIdle

NextDispatch ==
    \/ \E name \in CallNames : Dispatch(name)
    \/ SessionEnd
    \/ ToolReset

SpecDispatch == InitDispatch /\ [][NextDispatch]_vars

InitMain ==
    /\ ToolIdle /\ ChanIdle /\ SupIdle /\ ShotIdle /\ LogIdle /\ InjIdle
    /\ FramesIdle /\ DraftIdle /\ ListIdle /\ TouchIdle

NextMain ==
    \/ \E bytes \in MainTexts : MainBegin(bytes)
    \/ MainStep
    \/ ToolReset

SpecMain == InitMain /\ [][NextMain]_vars

\* The on-demand capture and the simulator with the clock standing still:
\* what happens to the control file does not depend on the timestamps.  The
\* simulator's timer fires checkControl every 500 ms for as long as the
\* simulator runs, and a poll that has opened the file runs to its end: it
\* removes the file and, on "now", saves and copies the image.
NextPending ==
    \/ CapOpen
    \/ CapWrite
    \/ CapBaseExists
    \/ CapBaseStat
    \/ CapPollExists
    \/ CapPollStat
    \/ CapRead
    \/ SimStart
    \/ SimStop
    \/ SimRead
    \/ SimRemove
    \/ SimSave
    \/ SimCopyDone

SpecPending ==
    /\ InitShot
    /\ [][NextPending]_vars
    /\ WF_vars(SimRead)
    /\ WF_vars(SimRemove)
    /\ WF_vars(SimSave)
    /\ WF_vars(SimCopyDone)

(***************************************************************************)
(* Claims about the supervisor (specification Spec).                       *)
(***************************************************************************)
Pids == 1..Len(procs)

JustLaunched == pc = "idle" /\ result = "launched"

\* The processes launched before the latest one for the same identity
\* (leaf name of the project directory), and for the same directory.
EarlierSameIdentity ==
    {i \in Pids : /\ i < Len(procs)
                  /\ project_name(procs[i].dir) =
                         project_name(procs[Len(procs)].dir)}

EarlierSameDir ==
    {i \in Pids : i < Len(procs) /\ procs[i].dir = procs[Len(procs)].dir}

Returned(c) == UNION {Cmds(r) : r \in returned[c]}

\* C3: when A and then B are written before any read, the next
\* read-and-consume returns exactly B, A is never returned by any read, and
\* after that read the file does not exist.  Stated for every poll that no
\* write overlaps: it returns exactly the command written last, no command
\* overwritten while pending is ever returned, and the file is gone after the
\* poll until the next write begins.
C3_Coalescing ==
    \A c \in Chans :
        /\ Returned(c) \cap superseded[c] = {}
        /\ (lastPoll[c].found /\ lastPoll[c].clean) =>
               /\ lastPoll[c].ret = lastPoll[c].want
               /\ Len(lastPoll[c].ret) = 1
        /\ (lastPoll[c].found /\ ~lastPoll[c].touched) => ~ctl[c].exists

\* C3 witness: B was written over the pending A, then a poll that no write
\* overlapped returned B, and the file is gone.
C3_Witness ==
    \E c \in Chans :
        /\ superseded[c] # {}
        /\ lastPoll[c].found /\ lastPoll[c].clean /\ ~lastPoll[c].touched
        /\ Len(lastPoll[c].ret) = 1
        /\ \E a \in superseded[c] : a.id + 1 = lastPoll[c].ret[1].id
        /\ ~ctl[c].exists

\* The command written last on c is still to be had: it is in the file, or
\* a poll holds it, or a poll returned it.
Survives(c) ==
    LET b == written[c][Len(written[c])].cmd
    IN \/ b \in Cmds(ctl[c].content)
       \/ rd[c].pc = "read" /\ b \in Cmds(rd[c].content)
       \/ b \in Returned(c)

\* C4 as stated: in every interleaving of the writes with the poll's read
\* and delete, the command written last on a channel survives: it is never
\* deleted without having been read.
C4_LatestSurvives ==
    \A c \in Chans :
        (wr.chan # c /\ written[c] # <<>>) => Survives(c)

\* C4 amended: the command written last on a channel survives unless its
\* write (open ... close) overlapped a poll (read ... delete) of the reader;
\* a write that overlaps no poll is never deleted unread.
C4_LatestSurvivesUnlessOverlap ==
    \A c \in Chans :
        (wr.chan # c /\ written[c] # <<>>) =>
            (Survives(c) \/ written[c][Len(written[c])].overlap)

\* C4 witness: a first write overlapped a poll, a second did not and its
\* command was returned by a poll.
C4_Witness ==
    \E c \in Chans :
        /\ Len(written[c]) >= 2
        /\ written[c][1].overlap
        /\ ~written[c][2].overlap
        /\ written[c][2].cmd \in Returned(c)

\* The commands a reader has read on c: returned by a poll, or held by the
\* poll in progress.
ReadBy(c) ==
    Returned(c) \cup (IF rd[c].pc = "read" THEN Cmds(rd[c].content) ELSE {})

\* Write k on c is lost: its command is not in the file, no reader has read
\* it, and no later write replaced it while it was pending.
Lost(c, k) ==
    written[c][k].cmd \notin
        Cmds(ctl[c].content) \cup ReadBy(c) \cup superseded[c]

CallDone == cap.pc = "done"

\* An image is returned only for a modification time above the baseline,
\* and it is not the image the baseline was taken from.
NoStaleImage ==
    cap.kind = "image" => cap.seen > cap.old /\ cap.img # cap.baseImg

\* A call during whose poll window the modification time never rose above
\* the baseline ends with the timeout text.
TimeoutWhenNeverAdvanced ==
    CallDone /\ ~cap.advanced => cap.kind = "timeout" /\ cap.polls = MaxPolls

\* C5: the on-demand capture returns image bytes only if the modification
\* time of screenshot_latest.jpg is strictly greater than the baseline read
\* by the call; if the modification time never advances past the baseline
\* during the 20 polls, the call returns the timeout text and never the
\* stale image.
C5_FreshImageOrTimeout == NoStaleImage /\ TimeoutWhenNeverAdvanced

\* C6: if, after the trigger is written and before the last poll, the
\* simulator consumes the "now" trigger and rewrites screenshot_latest.jpg
\* with a modification time later than the one the file had before the
\* trigger, the capture call returns that image, whatever the interleaving
\* of the simulator's poll with the call's steps.  (The file is taken to
\* stay in place: no simulator start clears the directory during the call.)
C6_CapturedInTimeIsReturned ==
    CallDone /\ cap.inTime /\ ~cap.cleared => cap.kind = "image"

(***************************************************************************)
(* Claims about the log file (SpecLog).                                    *)
(***************************************************************************)
\* The banner has been written since the last start.
AfterStart == lg \in {"started", "running"}

RECURSIVE LinesPrinted(_)
\* The lines the print calls ps put into the log.
LinesPrinted(ps) ==
    IF ps = <<>> THEN <<>>
    ELSE Lines(Message(Head(ps)) \o <<NL>>) \o LinesPrinted(Tail(ps))

\* The newlines inside a message.
Newlines(text) == Cardinality({i \in 1..Len(text) : text[i] = NL})

RECURSIVE LineCount(_)
LineCount(ps) ==
    IF ps = <<>> THEN 0
    ELSE 1 + Newlines(Message(Head(ps))) + LineCount(Tail(ps))

Called == last.module # "none"

LaunchDone == inj.pc = "idle" /\ launched >= 1

\* One call: True and one reference line when the reference was absent,
\* False and the same file when it was there.
OneCall ==
    Called =>
        IF RefCount(last.before, last.module) = 0
        THEN /\ last.ret
             /\ RefCount(last.after, last.module) = 1
             /\ Len(last.after) = Len(last.before) + 1
        ELSE ~last.ret /\ last.after = last.before

\* A launch after the first finds the three references and changes nothing.
Relaunch ==
    LaunchDone /\ launched >= 2 =>
        inj.rets = <<FALSE, FALSE, FALSE>> /\ script = inj.origin

\* C8 as stated: for every entry script and module, after the calls of a
\* launch (and of a second launch) the file holds exactly one reference
\* line for the module; a call returns True when the reference was absent,
\* and a repeated call returns False and leaves the file unchanged.
C8_ExactlyOneReference ==
    /\ OneCall
    /\ Relaunch
    /\ LaunchDone => \A k \in 1..3 : RefCount(script, Modules[k]) = 1

\* C8 (amended): the same for every entry script that held at most one
\* reference line for the module before the first launch; reference lines
\* that were there are neither removed nor merged.
C8_OneReferenceUnlessMore ==
    /\ OneCall
    /\ Relaunch
    /\ LaunchDone =>
           \A k \in 1..3 :
               RefCount(script, Modules[k]) =
                   IF RefCount(orig0, Modules[k]) = 0 THEN 1
                   ELSE RefCount(orig0, Modules[k])

\* Two launches of a project whose main.lua had no reference: the first
\* injected the three lines, the second found them.
C8_Witness ==
    /\ LaunchDone
    /\ launched = 2
    /\ RefCount(orig0, "_mcp_logger") = 0
    /\ inj.rets = <<FALSE, FALSE, FALSE>>
    /\ \A k \in 1..3 : RefCount(script, Modules[k]) = 1

\* The insertion index the priority (a) to (d) gives, or -1 for (a), which
\* allows the line after any mobdebug line.
Priority(lines) ==
    LET mobs == {i \in 1..Len(lines) : IsMobdebug(lines[i])}
        reqs == {i \in 1..Len(lines) :
                    HasRequire(lines[i]) /\ ~IsComment(lines[i])}
        code == {i \in 1..Len(lines) :
                    ~IsBlank(lines[i]) /\ ~IsComment(lines[i])}
    IN IF mobs # {} THEN -1
       ELSE IF reqs # {} THEN Min(reqs) - 1
       ELSE IF code # {} THEN Min(code) - 1
       ELSE 0

\* C9: when the reference is absent the line is inserted (a) immediately
\* after a mobdebug require line if there is one anywhere in the file, else
\* (b) immediately before the first non-comment line containing require,
\* else (c) immediately before the first non-blank, non-comment line, else
\* (d) at the top of the file.
C9_InsertionByPriority ==
    Called /\ last.ret =>
        /\ last.after =
               Inserted(last.before, last.idx, InjectedLine(last.module))
        /\ IF Priority(last.before) = -1
           THEN last.idx >= 1 /\ IsMobdebug(last.before[last.idx])
           ELSE last.idx = Priority(last.before)

\* C10: a call in which reading or writing main.lua fails returns False
\* and leaves main.lua as it was, and the launch goes on: once Popen has
\* succeeded the instance is registered.
C10_FailureLeavesScriptIntact ==
    /\ Called /\ last.fail # "none" =>
           ~last.ret /\ last.after = last.before /\ script = last.before
    /\ LaunchDone /\ inj.spawned => regd

(***************************************************************************)
(* Claims about the recorded frames (SpecFrames).                          *)
(***************************************************************************)
\* The frame number a name stands for, among the frames a run can have
\* recorded when it holds the listing.
FrameOf(name, listing) ==
    CHOOSE n \in 1..Len(listing) : listing[n] = name

\* C11: for the frames 1..n of one run, n above 999 included, selector
\* 'last' resolves to the file with the highest frame number.
C11_LastIsHighestFrame ==
    pick.which = "last" /\ pick.kind = "image" =>
        FrameOf(pick.file, pick.listing) = Len(pick.listing)

Published(i) == pubs[i].pc = "done" /\ pubs[i].result = "published"

ExternalFailures ==
    {"accounts_error", "missing_accounts", "upload_error", "post_error"}

FailedOutside(i) ==
    pubs[i].pc = "done" /\ pubs[i].result \in ExternalFailures

\* C13: a publish that finds no draft fails with the no-draft error; a
\* draft written by a successful preview is published by exactly one
\* publish call, which removes it, so that no second publish of the same
\* draft succeeds without a new preview.
C13_OnePublishPerPreview ==
    /\ \A i \in Calls :
           (pubs[i].pc = "done" /\ pubs[i].result # "no_key"
                /\ ~pubs[i].draft.exists) => pubs[i].result = "no_draft"
    /\ \A i \in Calls : Published(i) => ~pubs[i].left.exists
    /\ \A a, b \in DOMAIN posted : a # b => posted[a] # posted[b]

\* C14: there is one draft file; when it exists it holds the draft of the
\* most recent successful preview, and that draft has not been published;
\* a preview that returned an error left the draft file as it found it.
C14_DraftIsLatestUnpublished ==
    /\ Cardinality({p \in DraftPaths : tmpfiles[p].exists}) <= 1
    /\ \A p \in DraftPaths :
           tmpfiles[p].exists =>
               /\ npre >= 1
               /\ tmpfiles[p].id = npre
               /\ \A k \in DOMAIN posted : posted[k] # tmpfiles[p].id
    /\ prev.kind \notin {"none", "ok"} => prev.after = prev.before

\* An erroneous preview came after a draft was published and a new one
\* previewed: the new draft is still the pending one.
C14_Witness ==
    /\ prev.kind = "media_unresolved"
    /\ tmpfiles[PreviewDraftFile].exists
    /\ tmpfiles[PreviewDraftFile].id = 2
    /\ posted = <<1>>

\* C15: a publish that failed at the account lookup, the matching of
\* platforms to accounts, the media upload or the creation of the post has
\* left the draft file as it loaded it (unless another call wrote or
\* removed the file meanwhile), and a publish started after it, with no
\* preview and no successful publish in between, loads the same draft.
C15_FailedPublishKeepsDraft ==
    /\ \A i \in Calls :
           (FailedOutside(i) /\ ~pubs[i].touched) =>
               pubs[i].left = pubs[i].draft
    /\ \A i, j \in Calls :
           (/\ FailedOutside(i)
            /\ i \in pubs[j].after
            /\ pubs[j].pc # "idle"
            /\ npre = pubs[i].draft.id
            /\ posted = <<>>) => pubs[j].draft = pubs[i].draft

\* A publish of a draft with media has failed at an external step, and the
\* publish after the failure has found the same draft and posted it.
C15_Witness ==
    \E i, j \in Calls :
        /\ FailedOutside(i)
        /\ pubs[i].draft.media
        /\ i \in pubs[j].after
        /\ pubs[j].draft = pubs[i].draft
        /\ Published(j)
        /\ npre = 1
(***************************************************************************)
(* Claims about eviction, listing and the early returns (specification     *)
(* Spec).                                                                  *)
(***************************************************************************)
\* The processes that were registered and whose entry has been removed.
EvictedPids ==
    {i \in Pids : /\ ~(pc = "spawned" /\ h.pid = i)
                  /\ \A d \in DOMAIN running_projects :
                         running_projects[d].pid # i}

InRun == pc \in {"evicted", "prepared", "spawned"}

\* C16 as stated: an instance found registered is unregistered and its
\* termination is requested whether or not the process had already exited;
\* the force-kill follows only a grace wait in which it did not exit.
C16_TerminationAlwaysRequested ==
    /\ InRun => ~Registered(h.dir)
    /\ \A i \in EvictedPids : procs[i].term
    /\ \A i \in Pids : procs[i].kill => procs[i].term /\ ~procs[i].grace
    /\ \A i \in Pids : procs[i].grace => ~procs[i].kill

\* C16 amended: an instance found registered is unregistered whether or not
\* its process had already exited; termination is requested exactly when
\* the process was still running, and only of an evicted instance; a
\* force-kill is sent only after a terminate and a grace wait in which the
\* process did not exit, and a process that exited within the grace period
\* is never force-killed.
C16_TerminationWhenRunning ==
    /\ InRun => ~Registered(h.dir)
    /\ \A i \in EvictedPids :
           ~procs[i].alive /\ (procs[i].term <=> ~procs[i].own)
    /\ \A i \in Pids : procs[i].term => i \in EvictedPids
    /\ \A i \in Pids :
           procs[i].kill =>
               procs[i].term /\ ~procs[i].grace /\ ~procs[i].own
    /\ \A i \in Pids :
           procs[i].grace => procs[i].term /\ ~procs[i].kill

\* Two instances were evicted: one had exited on its own and was sent
\* nothing, the other exited within the grace period.
C16_Witness ==
    \E i, j \in EvictedPids :
        /\ procs[i].own /\ ~procs[i].term
        /\ procs[j].grace /\ procs[j].term

\* A signal reaches process i in this step.
Signalled(i) ==
    \/ procs'[i].term /\ ~procs[i].term
    \/ procs'[i].kill /\ ~procs[i].kill

\* C17: list_running_projects reports "running" exactly for the entries
\* whose process is alive when it is polled and "stopped" for the others,
\* one status for each entry, and leaves the map as it is; a process that
\* exits leaves the map as it is; an entry leaves the map only in the
\* eviction step of a run_solar2d_project call for its project directory.
C17_StoppedEntriesStay ==
    /\ [](pc = "listed" =>
             /\ DOMAIN report.status = DOMAIN running_projects
             /\ \A d \in DOMAIN report.status :
                    /\ report.status[d] \in {"running", "stopped"}
                    /\ report.status[d] = "running" <=> report.alive[d])
    /\ [][/\ (pc = "listed" \/ pc' = "listed") =>
                 running_projects' = running_projects
          /\ (\E i \in Pids : procs[i].alive /\ procs'[i].own) =>
                 running_projects' = running_projects
          /\ \A d \in DOMAIN running_projects :
                 d \notin DOMAIN running_projects' =>
                     pc = "idle" /\ pc' = "evicted" /\ h'.dir = d]_vars

\* The list reports a stopped instance, whose process exited on its own
\* and whose entry is still there, next to a running one.
C17_Witness ==
    /\ pc = "listed"
    /\ \E d, e \in DOMAIN running_projects :
           /\ report.status[d] = "stopped"
           /\ procs[running_projects[d].pid].own
           /\ report.status[e] = "running"

\* C18: a run_solar2d_project call changes the entry and signals the
\* process of no project directory but the one it resolved its argument
\* to, in its eviction step only; the step in which it fails with
\* main.lua-not-found changes no entry and sends no signal.
C18_NotFoundSparesOthers ==
    [][/\ \A d \in DOMAIN running_projects :
              (\/ d \notin DOMAIN running_projects'
               \/ running_projects'[d] # running_projects[d]
               \/ Signalled(running_projects[d].pid)) =>
                  pc = "idle" /\ pc' = "evicted" /\ h'.dir = d
       /\ (pc = "evicted" /\ result' = "not_found") =>
              /\ running_projects' = running_projects
              /\ Len(procs') = Len(procs)
              /\ \A i \in Pids : ~Signalled(i)]_vars

\* A call has failed with main.lua-not-found after it closed the instance
\* of its project directory, and another instance is registered, running
\* and was sent nothing.
C18_Witness ==
    /\ pc = "idle"
    /\ result = "not_found"
    /\ \E i \in EvictedPids : procs[i].term
    /\ \E d \in DOMAIN running_projects :
           LET pr == procs[running_projects[d].pid]
           IN pr.alive /\ ~pr.term /\ ~pr.kill

\* C19: the step that returns the not-configured text leaves the map as it
\* is, sends no signal, spawns nothing, and writes no companion file and
\* no reference into the entry script.
C19_NotConfiguredNoEffect ==
    [][result' = "not_configured" =>
           /\ running_projects' = running_projects
           /\ Len(procs') = Len(procs)
           /\ \A i \in Pids : ~Signalled(i)
           /\ h' = NoCall
           /\ pc' \in {"idle", "listed"}]_vars

\* The not-configured text was returned while an instance was registered
\* and running.
C19_Witness ==
    /\ pc = "idle"
    /\ result = "not_configured"
    /\ ~simOk
    /\ \E d \in DOMAIN running_projects :
           procs[running_projects[d].pid].alive

\* C31: in a relaunch the old process is closed and its entry removed, then
\* the new process is spawned, then the new entry is registered: from the
\* removal to the registration no instance is registered for the project
\* directory, the spawn finds no process of the directory running, and an
\* entry never refers to a process older than the newest one spawned for
\* its directory.
C31_RelaunchOrder ==
    /\ [](InRun => ~Registered(h.dir))
    /\ [](\A d \in DOMAIN running_projects :
              \A i \in Pids :
                  procs[i].dir = d => i <= running_projects[d].pid)
    /\ [][/\ Len(procs') > Len(procs) =>
                 /\ pc = "prepared" /\ pc' = "spawned"
                 /\ running_projects' = running_projects
                 /\ \A i \in Pids : procs[i].dir = h.dir => ~procs[i].alive
          /\ \A d \in DOMAIN running_projects' :
                 (\/ d \notin DOMAIN running_projects
                  \/ running_projects'[d] # running_projects[d]) =>
                     /\ pc = "spawned" /\ pc' = "idle"
                     /\ h.dir = d
                     /\ running_projects'[d].pid = Len(procs)
                     /\ procs[Len(procs)].dir = d]_vars

\* C31 (witness): the new process of a directory has been spawned and is
\* not yet registered; the old one was sent SIGTERM and its entry is gone.
C31_Witness ==
    /\ pc = "spawned"
    /\ ~Registered(h.dir)
    /\ \E i \in Pids : i < h.pid /\ procs[i].dir = h.dir /\ procs[i].term

LaunchFailures == {"not_found", "spawn_error"}

\* C35: a launch that fails after the eviction step (the entry script is
\* missing, or the spawn raises) ends the call with an error, spawns nothing
\* more and registers nothing, so that the map has no entry for the project
\* afterwards; and every entry of the map, at any time, is that of a process
\* the supervisor spawned for that directory, under that process's pid.
C35_FailedLaunchRegistersNothing ==
    /\ [](\A d \in DOMAIN running_projects :
              /\ running_projects[d].pid \in Pids
              /\ procs[running_projects[d].pid].dir = d)
    /\ []((pc = "idle" /\ result \in LaunchFailures) => h = NoCall)
    /\ [][/\ (pc \in {"evicted", "prepared"} /\ pc' = "idle") =>
                 /\ result' \in LaunchFailures
                 /\ running_projects' = running_projects
                 /\ procs' = procs
                 /\ ~(h.dir \in DOMAIN running_projects')
          /\ (result' \in LaunchFailures /\ result' # result) =>
                 (pc \in {"evicted", "prepared"} /\ pc' = "idle")]_vars

\* A spawn has failed for a project whose earlier instance was closed by the
\* same call: the process was signalled and its directory has no entry.
C35_Witness ==
    /\ pc = "idle"
    /\ result = "spawn_error"
    /\ Len(procs) = 1
    /\ procs[1].term
    /\ running_projects = <<>>

(***************************************************************************)
(* Claims about touch simulation (specification SpecTouch).                *)
(***************************************************************************)
TouchFailures == {"display_not_found", "read_error", "invalid_info"}

TouchDone == tc.pc = "done"

\* The file as loaded is a JSON object with both sizes, neither zero.
HasSizes(file) ==
    /\ file.exists
    /\ file.data.form = "json"
    /\ InfoKeys \subseteq file.data.keys
    /\ file.data.w # 0
    /\ file.data.h # 0

\* C20: a simulate_tap or simulate_drag call that finds no display info
\* file, or loads one without a non-zero contentWidth and contentHeight,
\* fails; a call opens the touch control file only after it has loaded
\* such sizes, and no step of a call changes the control file unless the
\* call has opened it, so that a failing call leaves a pending command as
\* it is.
C20_NoDisplayInfoNoCommand ==
    /\ [](/\ (TouchDone /\ tc.args.given /\ ~tc.found) =>
                 tc.result = "display_not_found"
          /\ (TouchDone /\ tc.found /\ ~HasSizes(tc.loaded)) =>
                 tc.result \in {"read_error", "invalid_info"}
          /\ tc.result \in TouchFailures => ~tc.opened
          /\ tc.opened => tc.found /\ HasSizes(tc.loaded)
          /\ (wr.chan = Touch \/ tc.result = "sent") => tc.opened)
    /\ [][(tc' # tc /\ ~tc'.opened) =>
              /\ ctl' = ctl
              /\ wr' = wr]_vars

\* A drag has failed because the display info file was gone, while the
\* command of the tap before it was pending, and the command is still
\* there.
C20_Witness ==
    /\ TouchDone
    /\ tc.kind = "drag"
    /\ tc.result = "display_not_found"
    /\ ~info.exists
    /\ ctl[Touch].exists
    /\ Len(ctl[Touch].content) = 1
    /\ ctl[Touch].content[1].text = "tap,161,240"
(***************************************************************************)
(* Further claims about the on-demand capture (SpecShot).                  *)
(***************************************************************************)
\* C30: the baseline the polls compare with is the modification time
\* screenshot_latest.jpg had when the trigger was written (0 if it was
\* absent): no capture made in answer to the trigger has entered it.
C30_BaselineBeforeTrigger ==
    cap.pc \in {"polling", "pollstat", "reading"} => cap.old = cap.pre

\* At most 20 polls are made.
PollsBounded == cap.polls <= MaxPolls

\* C27: whatever the simulator does, a capture call that has ended has
\* returned an image, the read-error text or the timeout text, after at
\* most 20 polls.
C27_CaptureEndsWithResult ==
    /\ PollsBounded
    /\ CallDone => cap.kind \in {"image", "error", "timeout"}

(***************************************************************************)
(* Claims about the recording window (SpecRec).                            *)
(***************************************************************************)
\* C28: for every duration asked for, the payload start_screenshot_recording
\* writes is a decimal integer d with 0 < d <= 300, and the simulator that
\* reads it starts a recording window of d seconds: a call that reports
\* "recording started" is neither taken as a stop nor ignored.
C28_PayloadStartsWindow ==
    tool.name = "start_screenshot_recording" =>
        /\ ToNumber(tool.payload) \in 1..MaxDuration
        /\ tool.pc = "done" =>
               /\ tool.effect = "start"
               /\ tool.window \in 1..MaxDuration

(***************************************************************************)
(* Claims about read_solar2d_logs (SpecRead).                              *)
(***************************************************************************)
IsSuffix(s, t) ==
    /\ Len(s) <= Len(t)
    /\ s = SubSeq(t, Len(t) - Len(s) + 1, Len(t))

\* The lines returned are the last lines of the file as read, and there are
\* at most 'lines' of them.
SuffixOfAtMostLines ==
    (tool.name = "read_solar2d_logs" /\ tool.kind = "logs") =>
        /\ IsSuffix(tool.text, tool.read)
        /\ Len(tool.text) <= tool.lines

\* A step of the call leaves the log file as the simulator wrote it.
ReadLeavesLog == [][tool' # tool => logf' = logf /\ LogExists' = LogExists]_vars

\* C24: read_solar2d_logs never modifies the log file, whether it is there,
\* absent or being appended to by the simulator, and the text it returns is
\* a suffix of at most 'lines' lines of the file as read.
C24_ReadOnlySuffix == []SuffixOfAtMostLines /\ ReadLeavesLog

(***************************************************************************)
(* Claims about the selectors on any directory (SpecGet).                  *)
(***************************************************************************)
\* C26: whatever the screenshot directory holds, 'last', a number and 'all'
\* never return or list screenshot_latest.jpg, and 'all' returns a text
\* manifest and no image.
C26_LatestNeverInSeries ==
    tool.name = "get_simulator_screenshot" =>
        /\ LatestFile \notin tool.got.files
        /\ LatestFile \notin tool.got.listed
        /\ tool.got.which = "all" =>
               /\ tool.got.files = {}
               /\ tool.got.kind \in {"manifest", "no_recorded"}

\* C26 (witness): 'all' on a directory that holds the on-demand capture and
\* two frames lists the two frames.
C26_Witness ==
    /\ tool.name = "get_simulator_screenshot"
    /\ tool.got.which = "all"
    /\ LatestFile \in tool.dir
    /\ tool.got.kind = "manifest"
    /\ tool.got.listed = {Frame(1), Frame(2)}

(***************************************************************************)
(* Claims about the project locator (SpecLocate).                          *)
(***************************************************************************)
\* C25: when main.lua exists in a directory D, find_main_lua gives the same
\* entry-script path for D and for D/main.lua, and the identity derived
\* from either is the leaf name of D; when there is no entry script it
\* still returns the path it was given.
C25_SamePathEitherWay ==
    tool.name = "find_main_lua" =>
        IF tool.dir \in tool.mains
        THEN /\ tool.fromDir = Join(tool.dir, MainName)
             /\ tool.fromFile = tool.fromDir
             /\ project_name(Parent(tool.fromDir)) = Name(tool.dir)
             /\ project_name(Parent(tool.fromFile)) = Name(tool.dir)
        ELSE /\ tool.fromDir = tool.dir
             /\ tool.fromFile = Join(tool.dir, MainName)

(***************************************************************************)
(* Claims about the names of the artifacts (SpecNames).                    *)
(***************************************************************************)
\* C23: the path a tool computes for a kind and an identity is the path in
\* that identity's companion scripts, and it is no artifact, of any kind,
\* of a project with another identity.
C23_IdentityNamespacing ==
    tool.name = "artifact" =>
        /\ tool.path = tool.baked
        /\ tool.project # tool.other => tool.path # tool.theirs

(***************************************************************************)
(* Claims about the Trello workflow (SpecTrello).                          *)
(***************************************************************************)
RejectedMoves ==
    {"unknown_lane", "reason_required", "fetch_error", "rejected"}

\* C29: update_trello_card moves a card to a lane only if that lane is in
\* VALID_TRANSITIONS of the lane the card is in, a card in 'done' is never
\* moved, and a call whose move is rejected sends no write request.
C29_WorkflowEnforced ==
    tool.name = "update_trello_card" =>
        /\ \A k \in 1..Len(tool.moves) :
               LET move == tool.moves[k]
               IN /\ move.from # "done"
                  /\ move.from \in Lanes =>
                         move.to \in VALID_TRANSITIONS[move.from]
        /\ \A i \in Updates :
               tool.calls[i].outcome \in RejectedMoves =>
                   tool.calls[i].wrote = 0

(***************************************************************************)
(* Claims about the tool-call boundary (SpecCall).                         *)
(***************************************************************************)
\* C21: whatever fails inside a tool call, the call returns a text result;
\* the only exception that leaves call_tool is the one for a tool name it
\* does not know.
C21_OnlyUnknownNameRaises ==
    (tool.name = "call_tool" /\ tool.outcome.kind = "raised") =>
        /\ tool.called \notin DOMAIN Handlers
        /\ tool.outcome.error = "unknown_tool"

Checked == tool.did.op = "check"

\* The number checkControl read, when it read one.
Consumed == ToNumber(tool.did.text)

\* C33: consuming a positive duration N sets the end of the recording
\* window to the time of consumption plus N whatever the end was before,
\* consuming 0 ends the recording at once, and the frame counter advances
\* only at a tick of the capture timer strictly before the end.
C33_SingleEndTimestamp ==
    LET st == tool.st
        before == tool.did.before
    IN /\ (Checked /\ Numeric(tool.did.text) /\ Consumed > 0) =>
              st.end = before.at + Consumed
       /\ (Checked /\ Numeric(tool.did.text) /\ Consumed = 0) =>
              st.end = 0 /\ ~isRecording(st)
       /\ (tool.did.op # "load" /\ st.count # before.count) =>
              /\ tool.did.op = "capture"
              /\ before.at < before.end
       /\ (tool.did.op = "capture" /\ before.at >= before.end) =>
              st = before

\* C33 (witness): a duration consumed while a longer window was open has
\* shortened it.
C33_Witness ==
    /\ Checked /\ Numeric(tool.did.text) /\ Consumed > 0
    /\ tool.did.before.at < tool.did.before.end
    /\ tool.st.end < tool.did.before.end

\* C34: in one simulator run the frame counter changes only by one, at a
\* captured frame, whose file carries the new number; stop and a new window
\* leave it as it is; a simulator start empties the directory,
\* screenshot_latest.jpg included, so that every frame in it was numbered
\* in the current run.
C34_CounterRunsOn ==
    LET st == tool.st
        before == tool.did.before
    IN /\ tool.did.op # "load" =>
              /\ st.count \in {before.count, before.count + 1}
              /\ st.count # before.count => tool.did.op = "capture"
       /\ tool.did.op = "capture" =>
              /\ st.dir \ before.dir \subseteq {Frame(st.count)}
              /\ st.dir # before.dir => st.count = before.count + 1
       /\ Checked => st.count = before.count
       /\ tool.did.op = "load" => st.dir = {} /\ st.count = 0
       /\ \A f \in st.dir :
              f = LatestFile \/ \E n \in 1..st.count : f = Frame(n)

\* C34 (witness): a stop was consumed after two frames of the second
\* simulator run, and the counter stays at two.
C34_Witness ==
    /\ Checked /\ Numeric(tool.did.text) /\ Consumed = 0
    /\ tool.st.starts = 2
    /\ tool.st.count = 2
    /\ Frame(2) \in tool.st.dir

\* C39: a poll that consumes the trigger token, a negative number or a text
\* that is no number leaves the end of the window and the frame counter as
\* they were, and the control file is removed all the same; the end changes
\* only when a positive number or 0 is consumed; the on-demand capture
\* writes screenshot_latest.jpg and no other file.
C39_OnlyDurationsMoveTheEnd ==
    LET st == tool.st
        before == tool.did.before
        text == tool.did.text
    IN /\ Checked => ~ctl[Shot].exists
       /\ (Checked /\ (\/ text = NowToken
                       \/ ~Numeric(text)
                       \/ Consumed < 0)) =>
              st.end = before.end /\ st.count = before.count
       /\ (tool.did.op # "load" /\ st.end # before.end) =>
              Checked /\ Numeric(text) /\ Consumed >= 0
       /\ Checked =>
              IF text = NowToken
              THEN st.dir = before.dir \cup {LatestFile}
              ELSE st.dir = before.dir

\* C39 (witness): a negative number was consumed while a recording window
\* was open, and the window is as it was.
C39_Witness ==
    /\ Checked /\ Numeric(tool.did.text) /\ Consumed < 0
    /\ isRecording(tool.did.before)
    /\ isRecording(tool.st)
    /\ ~ctl[Shot].exists

(***************************************************************************)
(* Claims about the tool list and the dispatcher (SpecDispatch).           *)
(***************************************************************************)
\* C36: every advertised tool has a handler, so that no call of an
\* advertised tool ends with "Unknown tool", and every handler key is the
\* name of an advertised tool: a call is handled exactly when the name
\* called is advertised.
C36_AdvertisedIsHandled ==
    tool.name = "session" =>
        \A i \in DOMAIN tool.calls :
            (tool.calls[i].called \in Advertised) <=>
                (tool.calls[i].outcome = "handled")

(***************************************************************************)
(* Claims about main.lua as a file (SpecMain).                             *)
(***************************************************************************)
\* The files that are `bytes` with one more line, `line`: the line and its
\* ending put before a line of the file, or an ending and the line put
\* after the last one.
Adds(bytes, line) ==
    {SubSeq(bytes, 1, p) \o ins \o SubSeq(bytes, p + 1, Len(bytes)) :
        p \in 0..Len(bytes), ins \in {<<line, LF>>, <<LF, line>>}}

\* C37: after an injection that returned True the file is what it was, all
\* of it and in the same order, with exactly one line more, the reference;
\* after a launch that injected the three companions the file is the
\* original with exactly three lines more.
C37_OnlyLinesAdded ==
    (tool.name = "inject" /\ tool.rets # <<>>) =>
        /\ tool.rets[Len(tool.rets)] =>
               tool.file \in
                   Adds(tool.before, InjectedLine(Modules[Len(tool.rets)]))
        /\ tool.rets = <<TRUE, TRUE, TRUE>> =>
               \E one \in Adds(tool.orig, InjectedLine(Modules[1])) :
                   \E two \in Adds(one, InjectedLine(Modules[2])) :
                       tool.file \in Adds(two, InjectedLine(Modules[3]))

\* C37 (LF): the same for a main.lua whose only line ending is "\n".
C37_OnlyLinesAddedLF ==
    (tool.name = "inject" /\ \A i \in DOMAIN tool.orig : tool.orig[i] # CR)
        => C37_OnlyLinesAdded

(***************************************************************************)
(* Claims about pending commands (SpecPending).                            *)
(***************************************************************************)
\* The call has written its trigger.
Triggered ==
    cap.pc \in {"written", "basestat", "polling", "pollstat", "reading",
                "done"}

\* C38: the supervising side never deletes a control file: the file goes
\* away only in a poll of the simulator, a restart of the simulator leaves
\* it as it is, and the "now" of a capture that no simulator consumed is
\* still in the file when the capture has timed out; a pending command is
\* consumed by the simulator that runs next.
C38_PendingUntilConsumed ==
    /\ []((nstarts = 0 /\ Triggered) => IsNow(ctl[Shot].content))
    /\ [](cap.kind = "timeout" =>
              \/ IsNow(ctl[Shot].content)
              \/ nstarts > 0)
    /\ [][/\ (ctl[Shot].exists /\ ~ctl'[Shot].exists) =>
                 (sim.pc = "read" /\ sim'.pc # "read")
          /\ nstarts' # nstarts => ctl' = ctl]_vars
    /\ (ctl[Shot].exists /\ sim.pc # "off")
           ~> (~ctl[Shot].exists \/ sim.pc = "off")

\* A capture timed out with no simulator running, its trigger is in the
\* file, and a simulator started afterwards has opened the file and read it.
C38_Witness ==
    /\ cap.kind = "timeout"
    /\ cap.id = 1
    /\ sim.pc = "read"
    /\ IsNow(sim.content)
    /\ sim.content[1].id = 1
    /\ nstarts = 1

=============================================================================
